---- MODULE Spec2Model ----
(***************************************************************************)
(* Transaction-Risk-Monitoring: the request pipeline of graph/workflow.py  *)
(* (sequential runner), its stages and the call-limit guard.               *)
(*                                                                         *)
(* Encoding of Python values:                                              *)
(*   Optional[T]      None is <<>>, a value v is <<v>>                     *)
(*   str              a sequence of non-empty segments (TLA+ strings);     *)
(*                    "" is <<>>, concatenation is \o.  A customer id is   *)
(*                    a sequence of single characters.                     *)
(*   dict entry       [present, value]: key absent, key present with None, *)
(*                    or key present with a value                          *)
(*   float score      an integer number of hundredths (40.00 is 4000)      *)
(***************************************************************************)
EXTENDS Integers, Sequences, FiniteSets, TLC

VARIABLES
    state,          \* the RiskWorkflowState threaded through the stages
    pc,             \* position of the runner / harness
    exc,            \* exception propagating out of the runner, or None
    auto_approve,   \* build_workflow(auto_approve=...)
    log_file,       \* the audit record written by output_node, or None
    result,         \* what ui_app.run_workflow hands to its caller, or None
    ncalls,         \* history: number of guard invocations, per counter
    visited,        \* history: the stages the runner has entered, in order
    reviewer_input  \* history: what the reviewer typed at the prompts, or None

vars == <<state, pc, exc, auto_approve, log_file, result, ncalls, visited,
          reviewer_input>>

\* ---------------------------------------------------------------- values

None == <<>>
Some(v) == <<v>>
Val(o) == o[1]

Absent == [present |-> FALSE, value |-> None]
Null == [present |-> TRUE, value |-> None]
Entry(v) == [present |-> TRUE, value |-> Some(v)]

\* dict.get(key, default)
Get(e, default) == IF e.present THEN e.value ELSE default

\* Python truthiness of an Optional[str] / Optional[list] / Optional[dict]
Truthy(o) == o # None /\ Val(o) # <<>>

Last(s) == s[Len(s)]

\* ---------------------------------------------------------------- bounds

\* longest customer identifier in a payload
MaxIdLen == 1
\* how many guard calls the guard harness drives per counter
MaxGuardCalls == 12

\* longest identifier handed to mask_customer_id on its own
MaxMaskLen == 7

\* longest note, in segments, handed to scrub_free_text directly
MaxScrubLen == 2

\* longest note, in segments, handed to run_moderation_middleware directly
MaxModLen == 2

\* highest score, in hundredths, handed to the tier lookup directly
MaxScore == 10000

\* ------------------------------------------------------- program constants

MAX_TOOL_CALLS == 10
MAX_MODEL_CALLS == 5

VALID_INTENTS == {"rescore", "suppress_flag", "explain_score"}

REQUIRED_FIELDS == <<"txn_count", "avg_txn_amount", "high_risk_country">>

\* weights in hundredths
W_TXN == 40
W_AMT == 40
W_HRC == 20

\* a weight table that still sums to one but is not the one the formula applies
WEIGHTS_shifted == [txn_count |-> 50, avg_txn_amount |-> 30, high_risk_country |-> 20]

\* the configured weight table
WEIGHTS == [txn_count |-> W_TXN, avg_txn_amount |-> W_AMT, high_risk_country |-> W_HRC]
TXN_COUNT_MIN == 2
TXN_COUNT_MAX == 72
AVG_AMT_MIN == 12
AVG_AMT_MAX == 4500

\* the thresholds of router.py's docstring table (80 / 60 / 30), which the
\* calibrated model replaced
TIERS_stale == << <<8000, "CRITICAL">>, <<6000, "HIGH">>, <<3000, "MEDIUM">>, <<0, "LOW">> >>

\* thresholds in hundredths of a score point, highest first
TIERS == << <<5500, "CRITICAL">>, <<4000, "HIGH">>, <<2000, "MEDIUM">>, <<0, "LOW">> >>

\* ------------------------------------------------------------- the inputs

\* str.lower().strip() on the intents a payload carries
LowerStrip(s) ==
    CASE s = " Suppress_Flag " -> "suppress_flag"
      [] OTHER -> s

IntentEntries ==
    {Absent, Null} \cup
    {Entry(s) : s \in {"rescore", "suppress_flag", "explain_score",
                       " Suppress_Flag ", "delete", ""}}

IdChars == {"C", "4"}

RECURSIVE StrsUpTo(_, _)
StrsUpTo(chars, n) ==
    IF n = 0 THEN {<<>>}
    ELSE LET shorter == StrsUpTo(chars, n - 1)
         IN shorter \cup {Append(s, c) : s \in shorter, c \in chars}

CustomerIdEntries ==
    {Absent, Null} \cup {Entry(s) : s \in StrsUpTo(IdChars, MaxIdLen)}

\* analyst notes: each text is one segment
NoteTexts == {"   ", "Routine review", "This looks FAKE", "SSN 123-45-6789 on file"}

NotesEntries == {Absent, Null, Entry(<<>>)} \cup {Entry(<<t>>) : t \in NoteTexts}

TxnEntries == {Absent, Null, Entry(5), Entry(72)}
AmtEntries == {Absent, Entry(12), Entry(4500)}
HrcEntries == {Absent, Entry(-1), Entry(0), Entry(1)}

FeatureDicts ==
    [txn_count : TxnEntries, avg_txn_amount : AmtEntries, high_risk_country : HrcEntries]

EmptyFeatures ==
    [txn_count |-> Absent, avg_txn_amount |-> Absent, high_risk_country |-> Absent]

FeaturesEntries == {Absent, Null} \cup {Entry(f) : f \in FeatureDicts}

Payloads ==
    [intent : IntentEntries, customer_id : CustomerIdEntries,
     notes : NotesEntries, customer_features : FeaturesEntries]

EmptyPayload ==
    [intent |-> Absent, customer_id |-> Absent, notes |-> Absent,
     customer_features |-> Absent]

\* ------------------------------------------------------ RiskWorkflowState

\* RiskWorkflowState(raw_input=payload, tool_call_count=n): every other
\* field at its dataclass default
NewState(raw, ntool) ==
    [raw_input |-> raw,
     intent |-> None,
     customer_id |-> None,
     free_text_notes |-> None,
     masked_customer_id |-> None,
     pii_fields_redacted |-> <<>>,
     moderation_passed |-> None,
     moderation_reason |-> None,
     risk_score |-> None,
     risk_tier |-> None,
     score_breakdown |-> None,
     missing_fields |-> <<>>,
     terminal_status |-> None,
     route_taken |-> None,
     hitl_triggered |-> FALSE,
     hitl_reviewer_action |-> None,
     hitl_reviewer_notes |-> None,
     hitl_edited_response |-> None,
     final_response |-> None,
     node_path |-> <<>>,
     errors |-> <<>>,
     tool_call_count |-> ntool,
     model_call_count |-> 0]

\* a node's outcome: the (mutated) state, and the exception it raised if any
Ok(st) == [st |-> st, exc |-> None]
Raise(st, e) == [st |-> st, exc |-> Some(e)]

\* payload = state.raw_input or {}
PayloadOf(st) == IF st.raw_input = None THEN EmptyPayload ELSE Val(st.raw_input)

\* ---------------------------------------------------------------- intake

\* intake_node with the route label of the customer_id branch forgotten
intake_node_no_route(st) ==
    LET s1 == [st EXCEPT !.node_path = Append(@, "intake")]
        payload == PayloadOf(st)
        got == Get(payload.intent, Some(""))
    IN  IF got = None
        THEN Raise(s1, "AttributeError")
        ELSE
        LET intent == LowerStrip(Val(got))
        IN  IF intent \notin VALID_INTENTS
            THEN Ok([s1 EXCEPT
                     !.errors = Append(@, <<"Intake: Unknown or missing intent '", intent, "'.">>),
                     !.terminal_status = Some("NEED_INFO"),
                     !.route_taken = Some("invalid_intent")])
            ELSE
            LET s2 == [s1 EXCEPT !.intent = Some(intent),
                                 !.customer_id = Get(payload.customer_id, None)]
            IN  IF ~Truthy(s2.customer_id)
                THEN Ok([s2 EXCEPT
                         !.errors = Append(@, <<"Intake: customer_id is required.">>),
                         !.terminal_status = Some("NEED_INFO")])
                ELSE Ok([s2 EXCEPT !.free_text_notes = Get(payload.notes, Some(<<>>))])

intake_node(st) ==
    LET s1 == [st EXCEPT !.node_path = Append(@, "intake")]
        payload == PayloadOf(st)
        got == Get(payload.intent, Some(""))
    IN  IF got = None
        THEN \* None.lower()
             Raise(s1, "AttributeError")
        ELSE
        LET intent == LowerStrip(Val(got))
        IN  IF intent \notin VALID_INTENTS
            THEN Ok([s1 EXCEPT
                     !.errors = Append(@, <<"Intake: Unknown or missing intent '", intent, "'.">>),
                     !.terminal_status = Some("NEED_INFO"),
                     !.route_taken = Some("invalid_intent")])
            ELSE
            LET s2 == [s1 EXCEPT !.intent = Some(intent),
                                 !.customer_id = Get(payload.customer_id, None)]
            IN  IF ~Truthy(s2.customer_id)
                THEN Ok([s2 EXCEPT
                         !.errors = Append(@, <<"Intake: customer_id is required.">>),
                         !.terminal_status = Some("NEED_INFO"),
                         !.route_taken = Some("missing_customer_id")])
                ELSE Ok([s2 EXCEPT !.free_text_notes = Get(payload.notes, Some(<<>>))])

\* ------------------------------------------------------- PII middleware

Stars(n) == [i \in 1..n |-> "*"]

Min2(a, b) == IF a < b THEN a ELSE b
Max2(a, b) == IF a > b THEN a ELSE b

\* the characters of "UNKNOWN", the result for an empty identifier
UNKNOWN_ID == <<"U", "N", "K", "N", "O", "W", "N">>

\* mask_customer_id without the floor of four mask characters
mask_customer_id_thin(customer_id) ==
    IF customer_id = <<>>
    THEN UNKNOWN_ID
    ELSE LET n == Len(customer_id)
             visible_chars == Min2(2, n)
         IN  Stars(n - visible_chars) \o SubSeq(customer_id, n - visible_chars + 1, n)

mask_customer_id(customer_id) ==
    IF customer_id = <<>>
    THEN UNKNOWN_ID
    ELSE LET n == Len(customer_id)
             visible_chars == Min2(2, n)
             visible == SubSeq(customer_id, n - visible_chars + 1, n)
         IN  Stars(Max2(4, n - visible_chars)) \o visible

\* the PII classes without the account-number pattern
PII_TYPES_no_account == <<"ssn", "email", "phone">>

\* the PII classes, in the order _PII_PATTERNS is iterated
PII_TYPES == <<"ssn", "email", "phone", "account_num">>

\* <<class, segment, pattern.sub("[REDACTED-<CLASS>]", segment)>> for every
\* segment of the model the class's pattern finds a match in
PatternTable ==
    {
     <<"phone", "1234567890", "[REDACTED-PHONE]">>,
     <<"account_num", "1234567890", "[REDACTED-ACCOUNT_NUM]">>,
     <<"phone", "2147483000", "[REDACTED-PHONE]">>,
     <<"account_num", "2147483000", "[REDACTED-ACCOUNT_NUM]">>,
     <<"ssn", "SSN 123-45-6789 mail [REDACTED-EMAIL] now",
       "SSN [REDACTED-SSN] mail [REDACTED-EMAIL] now">>,
     <<"ssn", "SSN 123-45-6789 mail a@b.co now",
       "SSN [REDACTED-SSN] mail a@b.co now">>,
     <<"ssn", "SSN 123-45-6789 on file",
       "SSN [REDACTED-SSN] on file">>,
     <<"ssn", "id 123-45-6789@b.co ok",
       "id [REDACTED-SSN]@b.co ok">>,
     <<"email", "SSN 123-45-6789 mail a@b.co now",
       "SSN 123-45-6789 mail [REDACTED-EMAIL] now">>,
     <<"email", "SSN [REDACTED-SSN] mail a@b.co now",
       "SSN [REDACTED-SSN] mail [REDACTED-EMAIL] now">>,
     <<"email", "id 123-45-6789@b.co ok",
       "id [REDACTED-EMAIL] ok">>,
     <<"email", "mail a@b.co now",
       "mail [REDACTED-EMAIL] now">>,
     <<"phone", "call 555-123-4567 now",
       "call [REDACTED-PHONE] now">>,
     <<"phone", "ref 5551234567 open",
       "ref [REDACTED-PHONE] open">>,
     <<"account_num", "acct 1234567890123 open",
       "acct [REDACTED-ACCOUNT_NUM] open">>,
     <<"account_num", "ref 5551234567 open",
       "ref [REDACTED-ACCOUNT_NUM] open">>
    }

\* pattern.search(segment) for the class `t`, on the texts of the model
PatternMatches(t, seg) == \E e \in PatternTable : e[1] = t /\ e[2] = seg

\* pattern.sub("[REDACTED-<TYPE>]", segment)
PatternSub(t, seg) ==
    IF PatternMatches(t, seg)
    THEN (CHOOSE e \in PatternTable : e[1] = t /\ e[2] = seg)[3]
    ELSE seg

RECURSIVE ScrubFrom(_, _, _)
ScrubFrom(i, scrubbed, redacted) ==
    IF i > Len(PII_TYPES)
    THEN <<scrubbed, redacted>>
    ELSE LET t == PII_TYPES[i]
         IN  IF \E k \in 1..Len(scrubbed) : PatternMatches(t, scrubbed[k])
             THEN ScrubFrom(i + 1,
                            [k \in 1..Len(scrubbed) |-> PatternSub(t, scrubbed[k])],
                            Append(redacted, t))
             ELSE ScrubFrom(i + 1, scrubbed, redacted)

\* (scrubbed_text, list_of_redacted_field_types)
scrub_free_text(text) == ScrubFrom(1, text, <<>>)

\* run_pii_middleware starting node_path afresh instead of appending to it
run_pii_middleware_fresh_path(st) ==
    LET s1 == [st EXCEPT !.node_path = <<"pii_middleware">>]
        s2 == IF Truthy(s1.customer_id)
              THEN [s1 EXCEPT
                    !.masked_customer_id = Some(mask_customer_id(Val(s1.customer_id))),
                    !.pii_fields_redacted = Append(@, "customer_id")]
              ELSE s1
    IN  IF Truthy(s2.free_text_notes)
        THEN LET r == scrub_free_text(Val(s2.free_text_notes))
             IN  Ok([s2 EXCEPT !.free_text_notes = Some(r[1]),
                               !.pii_fields_redacted = @ \o r[2]])
        ELSE Ok(s2)

run_pii_middleware(st) ==
    LET s1 == [st EXCEPT !.node_path = Append(@, "pii_middleware")]
        s2 == IF Truthy(s1.customer_id)
              THEN [s1 EXCEPT
                    !.masked_customer_id = Some(mask_customer_id(Val(s1.customer_id))),
                    !.pii_fields_redacted = Append(@, "customer_id")]
              ELSE s1
    IN  IF Truthy(s2.free_text_notes)
        THEN LET r == scrub_free_text(Val(s2.free_text_notes))
             IN  Ok([s2 EXCEPT !.free_text_notes = Some(r[1]),
                               !.pii_fields_redacted = @ \o r[2]])
        ELSE Ok(s2)

\* ------------------------------------------------- moderation middleware

FLAGGED_KEYWORDS ==
    <<"kill", "threat", "harm", "discriminat", "racist", "sexist",
      "fabricat", "fake", "falsif", "bribe">>

\* kw in segment.lower(), on the texts of the model
KeywordIn(kw, seg) ==
    \/ kw = "fake" /\ seg \in {"This looks FAKE", "A fake threat"}
    \/ kw = "threat" /\ seg = "A fake threat"

\* segment.strip() == ""
IsBlankSeg(seg) == seg = "   "

\* not text.strip()
IsBlank(text) == \A k \in 1..Len(text) : IsBlankSeg(text[k])

\* (passed, reason)
heuristic_moderate(text) ==
    LET hits == {i \in 1..Len(FLAGGED_KEYWORDS) :
                    \E k \in 1..Len(text) : KeywordIn(FLAGGED_KEYWORDS[i], text[k])}
    IN  IF hits # {}
        THEN LET first == CHOOSE i \in hits : \A j \in hits : i <= j
             IN  <<FALSE, <<"Flagged by heuristic moderation: keyword '",
                            FLAGGED_KEYWORDS[first], "' detected.">> >>
        ELSE <<TRUE, <<"Passed heuristic moderation.">> >>

\* what the external classifier does when it is called
OpenAIOutcomes == {"pass", "flagged", "error", "unavailable"}

openai_moderate(text, outcome) ==
    CASE outcome = "flagged" -> <<FALSE, <<"OpenAI moderation flagged: ", "categories">> >>
      [] outcome = "pass" -> <<TRUE, <<"Passed OpenAI moderation.">> >>
      [] OTHER -> heuristic_moderate(text)

\* run_moderation_middleware letting the classifier's exception leave the node
run_moderation_middleware_no_fallback(st, api) ==
    LET s1 == [st EXCEPT !.node_path = Append(@, "moderation_middleware")]
    IN  IF ~Truthy(s1.free_text_notes) \/ IsBlank(Val(s1.free_text_notes))
        THEN Ok([s1 EXCEPT !.moderation_passed = Some(TRUE),
                           !.moderation_reason = Some(<<"No free-text notes to moderate.">>)])
        ELSE IF api \in {"error", "unavailable"}
             THEN Raise(s1, "APIError")
             ELSE LET r == IF api # "no_key"
                           THEN openai_moderate(Val(s1.free_text_notes), api)
                           ELSE heuristic_moderate(Val(s1.free_text_notes))
                  IN  Ok([s1 EXCEPT !.moderation_passed = Some(r[1]),
                                    !.moderation_reason = Some(r[2])])

\* run_moderation_middleware counting its call of the external classifier
run_moderation_middleware_counted(st, api) ==
    LET s1 == [st EXCEPT !.node_path = Append(@, "moderation_middleware")]
    IN  IF ~Truthy(s1.free_text_notes) \/ IsBlank(Val(s1.free_text_notes))
        THEN Ok([s1 EXCEPT !.moderation_passed = Some(TRUE),
                           !.moderation_reason = Some(<<"No free-text notes to moderate.">>)])
        ELSE IF api # "no_key"
             THEN LET r == openai_moderate(Val(s1.free_text_notes), api)
                  IN  Ok([s1 EXCEPT !.model_call_count = @ + 1,
                                    !.moderation_passed = Some(r[1]),
                                    !.moderation_reason = Some(r[2])])
             ELSE LET r == heuristic_moderate(Val(s1.free_text_notes))
                  IN  Ok([s1 EXCEPT !.moderation_passed = Some(r[1]),
                                    !.moderation_reason = Some(r[2])])

\* `api` is "no_key" when OPENAI_API_KEY is unset, else the classifier's outcome
run_moderation_middleware(st, api) ==
    LET s1 == [st EXCEPT !.node_path = Append(@, "moderation_middleware")]
    IN  IF ~Truthy(s1.free_text_notes) \/ IsBlank(Val(s1.free_text_notes))
        THEN Ok([s1 EXCEPT !.moderation_passed = Some(TRUE),
                           !.moderation_reason = Some(<<"No free-text notes to moderate.">>)])
        ELSE LET r == IF api # "no_key"
                      THEN openai_moderate(Val(s1.free_text_notes), api)
                      ELSE heuristic_moderate(Val(s1.free_text_notes))
             IN  Ok([s1 EXCEPT !.moderation_passed = Some(r[1]),
                               !.moderation_reason = Some(r[2])])

\* --------------------------------------------------------- call limits

\* check_tool_call_limit comparing with >= : the call that reaches the
\* ceiling already fails
check_tool_call_limit_early(st, increment) ==
    LET s1 == IF increment THEN [st EXCEPT !.tool_call_count = @ + 1] ELSE st
    IN  IF s1.tool_call_count >= MAX_TOOL_CALLS
        THEN Raise([s1 EXCEPT
                    !.errors = Append(@, <<"ToolCallLimitMiddleware: Limit of ",
                                           ToString(MAX_TOOL_CALLS),
                                           " tool calls exceeded (current: ",
                                           ToString(s1.tool_call_count),
                                           "). Run aborted.">>),
                    !.terminal_status = Some("ESCALATE"),
                    !.route_taken = Some("tool_call_limit_exceeded")],
                   "CallLimitExceededError")
        ELSE Ok(s1)

\* check_tool_call_limit undoing its increment when the limit is breached
check_tool_call_limit_rollback(st, increment) ==
    LET s1 == IF increment THEN [st EXCEPT !.tool_call_count = @ + 1] ELSE st
    IN  IF s1.tool_call_count > MAX_TOOL_CALLS
        THEN Raise([st EXCEPT
                    !.errors = Append(@, <<"ToolCallLimitMiddleware: Limit of ",
                                           ToString(MAX_TOOL_CALLS),
                                           " tool calls exceeded (current: ",
                                           ToString(s1.tool_call_count),
                                           "). Run aborted.">>),
                    !.terminal_status = Some("ESCALATE"),
                    !.route_taken = Some("tool_call_limit_exceeded")],
                   "CallLimitExceededError")
        ELSE Ok(s1)

check_tool_call_limit(st, increment) ==
    LET s1 == IF increment THEN [st EXCEPT !.tool_call_count = @ + 1] ELSE st
    IN  IF s1.tool_call_count > MAX_TOOL_CALLS
        THEN Raise([s1 EXCEPT
                    !.errors = Append(@, <<"ToolCallLimitMiddleware: Limit of ",
                                           ToString(MAX_TOOL_CALLS),
                                           " tool calls exceeded (current: ",
                                           ToString(s1.tool_call_count),
                                           "). Run aborted.">>),
                    !.terminal_status = Some("ESCALATE"),
                    !.route_taken = Some("tool_call_limit_exceeded")],
                   "CallLimitExceededError")
        ELSE Ok(s1)

check_model_call_limit(st, increment) ==
    LET s1 == IF increment THEN [st EXCEPT !.model_call_count = @ + 1] ELSE st
    IN  IF s1.model_call_count > MAX_MODEL_CALLS
        THEN Raise([s1 EXCEPT
                    !.errors = Append(@, <<"ModelCallLimitMiddleware: Limit of ",
                                           ToString(MAX_MODEL_CALLS),
                                           " model calls exceeded (current: ",
                                           ToString(s1.model_call_count),
                                           "). Run aborted.">>),
                    !.terminal_status = Some("ESCALATE"),
                    !.route_taken = Some("model_call_limit_exceeded")],
                   "CallLimitExceededError")
        ELSE Ok(s1)

\* ------------------------------------------------------- scoring engine

\* round(k * a / d) to the nearest integer, ties to even (d > 0, k >= 0);
\* computed from a's quotient and remainder so that no product overflows
RoundScaled(k, a, d) ==
    LET scaled == k * (a % d)
        q == k * (a \div d) + (scaled \div d)
        r == scaled % d
    IN  IF 2 * r < d THEN q
        ELSE IF 2 * r > d THEN q + 1
        ELSE IF q % 2 = 0 THEN q ELSE q + 1

\* n / d truncated instead of rounded
RoundDiv_floor(n, d) == n \div d

\* round(n / d) to the nearest integer, ties to even (d > 0)
RoundDiv(n, d) == RoundScaled(1, n, d)

\* _minmax without subtracting the minimum from the value
MinMaxNum_no_offset(value, vmin, vmax) ==
    IF vmax = vmin THEN 0 ELSE Max2(0, Min2(vmax - vmin, value))

\* _minmax as a fraction: numerator over MinMaxDen
MinMaxNum(value, vmin, vmax) ==
    IF vmax = vmin THEN 0 ELSE Max2(0, Min2(vmax - vmin, value - vmin))

MinMaxDen(vmin, vmax) == IF vmax = vmin THEN 1 ELSE vmax - vmin

\* the tier lookup comparing with > : a score on a threshold falls to the
\* tier below
TierOf_strict(score) ==
    LET hits == {i \in 1..Len(TIERS) : score > TIERS[i][1]}
    IN  IF hits = {} THEN None
        ELSE Some(TIERS[CHOOSE i \in hits : \A j \in hits : i <= j][2])

\* next(t for threshold, t in TIERS if score >= threshold); None when no
\* threshold matches (next() raises StopIteration)
TierOf(score) ==
    LET hits == {i \in 1..Len(TIERS) : score >= TIERS[i][1]}
    IN  IF hits = {} THEN None
        ELSE Some(TIERS[CHOOSE i \in hits : \A j \in hits : i <= j][2])

\* str(float(v))
StrFloat(v) == <<ToString(v), ".0">>

\* fname.replace("_", " ").title()
TitleOf(fname) ==
    CASE fname = "txn_count" -> "Txn Count"
      [] fname = "avg_txn_amount" -> "Avg Txn Amount"
      [] fname = "high_risk_country" -> "High Risk Country"

\* the last of the features with the greatest contribution
TopFeature_last(breakdown) ==
    LET best == {i \in 1..Len(REQUIRED_FIELDS) :
                    \A j \in 1..Len(REQUIRED_FIELDS) :
                        breakdown[REQUIRED_FIELDS[j]].weighted_contribution
                            <= breakdown[REQUIRED_FIELDS[i]].weighted_contribution}
    IN  REQUIRED_FIELDS[CHOOSE i \in best : \A j \in best : j <= i]

\* max(breakdown.items(), key=weighted_contribution): the first maximum
TopFeature(breakdown) ==
    LET best == {i \in 1..Len(REQUIRED_FIELDS) :
                    \A j \in 1..Len(REQUIRED_FIELDS) :
                        breakdown[REQUIRED_FIELDS[j]].weighted_contribution
                            <= breakdown[REQUIRED_FIELDS[i]].weighted_contribution}
    IN  REQUIRED_FIELDS[CHOOSE i \in best : \A j \in best : i <= j]

build_explanation(score, tier, breakdown) ==
    <<"Risk Score   : ", ToString(score), "/100 of 100", "Risk Tier    : ", tier>>
    \o <<"  txn_count ">> \o StrFloat(breakdown.txn_count.raw_value)
    \o <<"  avg_txn_amount ">> \o StrFloat(breakdown.avg_txn_amount.raw_value)
    \o <<"high_risk_country", ToString(breakdown.high_risk_country.raw_value)>>
    \o <<"Primary driver: ", TitleOf(TopFeature(breakdown))>>

\* the ScoringResult, or the exception compute_score raises
compute_score(customer_data) ==
    LET missing == SelectSeq(REQUIRED_FIELDS,
                       LAMBDA f : ~customer_data[f].present \/ customer_data[f].value = None)
    IN  IF missing # <<>>
        THEN [exc |-> None,
              score |-> 0, tier |-> "UNKNOWN", breakdown |-> <<>>,
              missing_fields |-> missing,
              explainability_text |-> <<"Score cannot be computed. Missing fields: ">> \o missing]
        ELSE
        LET txn == Val(customer_data.txn_count.value)
            amt == Val(customer_data.avg_txn_amount.value)
            hrc == Val(customer_data.high_risk_country.value)
            tn == MinMaxNum(txn, TXN_COUNT_MIN, TXN_COUNT_MAX)
            td == MinMaxDen(TXN_COUNT_MIN, TXN_COUNT_MAX)
            an == MinMaxNum(amt, AVG_AMT_MIN, AVG_AMT_MAX)
            ad == MinMaxDen(AVG_AMT_MIN, AVG_AMT_MAX)
            \* round(raw_score * 100, 2), in hundredths; the weights are the
            \* literals 0.40, 0.40, 0.20 of the formula, in hundredths
            score == RoundScaled(100, 40 * tn * ad + 40 * an * td + 20 * hrc * td * ad,
                                 td * ad)
            tier == TierOf(score)
            breakdown ==
                [txn_count |->
                    [raw_value |-> txn, normalized_score |-> RoundDiv(10000 * tn, td),
                     weight |-> 40,
                     weighted_contribution |-> RoundDiv(100 * 40 * tn, td)],
                 avg_txn_amount |->
                    [raw_value |-> amt, normalized_score |-> RoundDiv(10000 * an, ad),
                     weight |-> 40,
                     weighted_contribution |-> RoundDiv(100 * 40 * an, ad)],
                 high_risk_country |->
                    [raw_value |-> hrc, normalized_score |-> 10000 * hrc,
                     weight |-> 20,
                     weighted_contribution |-> 100 * 20 * hrc]]
        IN  IF tier = None
            THEN [exc |-> Some("StopIteration")]
            ELSE [exc |-> None,
                  score |-> score, tier |-> Val(tier), breakdown |-> breakdown,
                  missing_fields |-> <<>>,
                  explainability_text |-> build_explanation(score, Val(tier), breakdown)]

\* --------------------------------------------------------- scoring node

\* scoring_node checking the call limit only after the model has run
scoring_node_late_check(st) ==
    LET s1 == [st EXCEPT !.node_path = Append(@, "scoring")]
        got == Get(PayloadOf(s1).customer_features, Some(EmptyFeatures))
    IN  IF got = None \/ Val(got) = EmptyFeatures
        THEN check_tool_call_limit(
                 [s1 EXCEPT
                  !.missing_fields = <<"customer_features">>,
                  !.errors = Append(@, <<"Scoring: No customer_features provided in payload.">>)],
                 TRUE)
        ELSE
        LET res == compute_score(Val(got))
        IN  IF res.exc # None
            THEN Raise(s1, Val(res.exc))
            ELSE check_tool_call_limit(
                     [s1 EXCEPT !.risk_score = Some(res.score),
                                !.risk_tier = Some(res.tier),
                                !.score_breakdown = Some(res.breakdown),
                                !.missing_fields = res.missing_fields],
                     TRUE)

\* scoring_node that does not copy the result's missing_fields to the state
scoring_node_no_missing(st) ==
    LET s1 == [st EXCEPT !.node_path = Append(@, "scoring")]
        chk == check_tool_call_limit(s1, TRUE)
    IN  IF chk.exc # None
        THEN chk
        ELSE
        LET s2 == chk.st
            got == Get(PayloadOf(s2).customer_features, Some(EmptyFeatures))
        IN  IF got = None \/ Val(got) = EmptyFeatures
            THEN Ok([s2 EXCEPT
                     !.missing_fields = <<"customer_features">>,
                     !.errors = Append(@, <<"Scoring: No customer_features provided in payload.">>)])
            ELSE
            LET res == compute_score(Val(got))
            IN  IF res.exc # None
                THEN Raise(s2, Val(res.exc))
                ELSE
                LET s3 == [s2 EXCEPT !.risk_score = Some(res.score),
                                     !.risk_tier = Some(res.tier),
                                     !.score_breakdown = Some(res.breakdown)]
                IN  IF s3.intent = Some("explain_score")
                    THEN Ok([s3 EXCEPT !.free_text_notes =
                                Some((IF @ = None THEN <<>> ELSE Val(@))
                                     \o <<"\n\n[EXPLAINABILITY REPORT]\n">>
                                     \o res.explainability_text)])
                    ELSE Ok(s3)

\* scoring_node that runs the model on an absent or empty customer_features too
scoring_node_always_scores(st) ==
    LET s1 == [st EXCEPT !.node_path = Append(@, "scoring")]
        chk == check_tool_call_limit(s1, TRUE)
    IN  IF chk.exc # None
        THEN chk
        ELSE
        LET s2 == chk.st
            got == Get(PayloadOf(s2).customer_features, Some(EmptyFeatures))
        IN  IF FALSE
            THEN Ok([s2 EXCEPT
                     !.missing_fields = <<"customer_features">>,
                     !.errors = Append(@, <<"Scoring: No customer_features provided in payload.">>)])
            ELSE
            LET res == compute_score(IF got = None THEN EmptyFeatures ELSE Val(got))
            IN  IF res.exc # None
                THEN Raise(s2, Val(res.exc))
                ELSE
                LET s3 == [s2 EXCEPT !.risk_score = Some(res.score),
                                     !.risk_tier = Some(res.tier),
                                     !.score_breakdown = Some(res.breakdown),
                                     !.missing_fields = res.missing_fields]
                IN  IF s3.intent = Some("explain_score")
                    THEN Ok([s3 EXCEPT !.free_text_notes =
                                Some((IF @ = None THEN <<>> ELSE Val(@))
                                     \o <<"\n\n[EXPLAINABILITY REPORT]\n">>
                                     \o res.explainability_text)])
                    ELSE Ok(s3)

scoring_node(st) ==
    LET s1 == [st EXCEPT !.node_path = Append(@, "scoring")]
        chk == check_tool_call_limit(s1, TRUE)
    IN  IF chk.exc # None
        THEN chk
        ELSE
        LET s2 == chk.st
            got == Get(PayloadOf(s2).customer_features, Some(EmptyFeatures))
        IN  IF got = None \/ Val(got) = EmptyFeatures
            THEN Ok([s2 EXCEPT
                     !.missing_fields = <<"customer_features">>,
                     !.errors = Append(@, <<"Scoring: No customer_features provided in payload.">>)])
            ELSE
            LET res == compute_score(Val(got))
            IN  IF res.exc # None
                THEN Raise(s2, Val(res.exc))
                ELSE
                LET s3 == [s2 EXCEPT !.risk_score = Some(res.score),
                                     !.risk_tier = Some(res.tier),
                                     !.score_breakdown = Some(res.breakdown),
                                     !.missing_fields = res.missing_fields]
                IN  IF s3.intent = Some("explain_score")
                    THEN Ok([s3 EXCEPT !.free_text_notes =
                                Some((IF @ = None THEN <<>> ELSE Val(@))
                                     \o <<"\n\n[EXPLAINABILITY REPORT]\n">>
                                     \o res.explainability_text)])
                    ELSE Ok(s3)

\* ---------------------------------------------------------------- router

\* f"{tier.lower()}_risk_auto_approved"
AutoApprovedLabel(tier) ==
    CASE tier = "LOW" -> "low_risk_auto_approved"
      [] tier = "MEDIUM" -> "medium_risk_auto_approved"
      [] tier = "HIGH" -> "high_risk_auto_approved"
      [] tier = "CRITICAL" -> "critical_risk_auto_approved"
      [] OTHER -> "unknown_risk_auto_approved"

SUPPRESS_MIN_SCORE == 4000

\* router_node with the tier rules ahead of the suppress_flag rule, the order
\* of the docstring table
router_node_tier_first(st) ==
    LET s1 == [st EXCEPT !.node_path = Append(@, "router")]
        score == IF s1.risk_score = None THEN 0 ELSE Val(s1.risk_score)
        tier == IF s1.risk_tier = None THEN "UNKNOWN" ELSE Val(s1.risk_tier)
        Route(status, label) ==
            Ok([s1 EXCEPT !.terminal_status = Some(status), !.route_taken = Some(label)])
    IN  IF s1.terminal_status # None THEN Ok(s1)
        ELSE IF s1.moderation_passed = Some(FALSE) THEN Route("ESCALATE", "moderation_failure")
        ELSE IF s1.missing_fields # <<>> THEN Route("NEED_INFO", "missing_data")
        ELSE IF tier = "CRITICAL" THEN Route("ESCALATE", "critical_risk_auto_escalate")
        ELSE IF tier = "HIGH" THEN Route("ESCALATE", "high_risk_escalate")
        ELSE IF s1.intent = Some("suppress_flag") /\ score >= SUPPRESS_MIN_SCORE
             THEN Route("ESCALATE", "suppress_high_risk_review")
        ELSE Route("READY", AutoApprovedLabel(tier))

\* router_node without the already-terminated guard
router_node_no_guard(st) ==
    LET s1 == [st EXCEPT !.node_path = Append(@, "router")]
        score == IF s1.risk_score = None THEN 0 ELSE Val(s1.risk_score)
        tier == IF s1.risk_tier = None THEN "UNKNOWN" ELSE Val(s1.risk_tier)
        Route(status, label) ==
            Ok([s1 EXCEPT !.terminal_status = Some(status), !.route_taken = Some(label)])
    IN  IF s1.moderation_passed = Some(FALSE) THEN Route("ESCALATE", "moderation_failure")
        ELSE IF s1.missing_fields # <<>> THEN Route("NEED_INFO", "missing_data")
        ELSE IF s1.intent = Some("suppress_flag") /\ score >= SUPPRESS_MIN_SCORE
             THEN Route("ESCALATE", "suppress_high_risk_review")
        ELSE IF tier = "CRITICAL" THEN Route("ESCALATE", "critical_risk_auto_escalate")
        ELSE IF tier = "HIGH" THEN Route("ESCALATE", "high_risk_escalate")
        ELSE Route("READY", AutoApprovedLabel(tier))

router_node(st) ==
    LET s1 == [st EXCEPT !.node_path = Append(@, "router")]
        \* state.risk_score or 0.0, state.risk_tier or "UNKNOWN"
        score == IF s1.risk_score = None THEN 0 ELSE Val(s1.risk_score)
        tier == IF s1.risk_tier = None THEN "UNKNOWN" ELSE Val(s1.risk_tier)
        Route(status, label) ==
            Ok([s1 EXCEPT !.terminal_status = Some(status), !.route_taken = Some(label)])
    IN  IF s1.terminal_status # None THEN Ok(s1)
        ELSE IF s1.moderation_passed = Some(FALSE) THEN Route("ESCALATE", "moderation_failure")
        ELSE IF s1.missing_fields # <<>> THEN Route("NEED_INFO", "missing_data")
        ELSE IF s1.intent = Some("suppress_flag") /\ score >= SUPPRESS_MIN_SCORE
             THEN Route("ESCALATE", "suppress_high_risk_review")
        ELSE IF tier = "CRITICAL" THEN Route("ESCALATE", "critical_risk_auto_escalate")
        ELSE IF tier = "HIGH" THEN Route("ESCALATE", "high_risk_escalate")
        ELSE Route("READY", AutoApprovedLabel(tier))

\* ------------------------------------------------------------------ HITL

DRAFT ==
    <<"Thank you for your patience. We have received your request and it is currently being reviewed by one of our compliance officers. This is a standard part of our process to ensure your account is protected. Please call us back and a member of our team will be happy to walk you through the next steps.">>

\* what a reviewer may type at a prompt
ActionInputs == {"A", "e", " r ", "x", ""}
ReviewerTexts == {"", "  ", "X", " X ", "Auto-approved (non-interactive mode)"}

\* input(...).strip().upper()
StripUpper(s) ==
    CASE s = "e" -> "E"
      [] s = " r " -> "R"
      [] s = "x" -> "X"
      [] OTHER -> s

\* input(...).strip()
Strip(s) ==
    CASE s = "" -> <<>>
      [] s = "  " -> <<>>
      [] s = " X " -> <<"X">>
      [] OTHER -> <<s>>

\* hitl_node without its node_path entry
hitl_enter_unlisted(st, is_interactive) ==
    IF st.terminal_status # Some("ESCALATE") THEN st
    ELSE
    LET s2 == [st EXCEPT !.hitl_triggered = TRUE]
    IN  IF ~is_interactive
        THEN [s2 EXCEPT
              !.hitl_reviewer_action = Some("approve"),
              !.hitl_reviewer_notes = Some(<<"Auto-approved (non-interactive mode)">>),
              !.final_response = Some(<<"draft">>)]
        ELSE s2

\* hitl_node without the terminal_status test
hitl_enter_unguarded(st, is_interactive) ==
    LET s2 == [st EXCEPT !.node_path = Append(@, "hitl"), !.hitl_triggered = TRUE]
    IN  IF ~is_interactive
        THEN [s2 EXCEPT
              !.hitl_reviewer_action = Some("approve"),
              !.hitl_reviewer_notes = Some(<<"Auto-approved (non-interactive mode)">>),
              !.final_response = Some(<<"draft">>)]
        ELSE s2

\* hitl_node that forgets to record that the gate was engaged
hitl_enter_untriggered(st, is_interactive) ==
    LET s1 == [st EXCEPT !.node_path = Append(@, "hitl")]
    IN  IF s1.terminal_status # Some("ESCALATE") THEN s1
        ELSE IF ~is_interactive
        THEN [s1 EXCEPT
              !.hitl_reviewer_action = Some("approve"),
              !.hitl_reviewer_notes = Some(<<"Auto-approved (non-interactive mode)">>),
              !.final_response = Some(<<"draft">>)]
        ELSE s1

\* hitl_node up to the first input(): the whole node in automatic mode
hitl_enter(st, is_interactive) ==
    LET s1 == [st EXCEPT !.node_path = Append(@, "hitl")]
    IN  IF s1.terminal_status # Some("ESCALATE") THEN s1
        ELSE
        LET s2 == [s1 EXCEPT !.hitl_triggered = TRUE]
        IN  IF ~is_interactive
            THEN [s2 EXCEPT
                  !.hitl_reviewer_action = Some("approve"),
                  !.hitl_reviewer_notes = Some(<<"Auto-approved (non-interactive mode)">>),
                  !.final_response = Some(DRAFT)]
            ELSE s2

\* whether hitl_node then blocks on input("Enter action (A/E/R): ")
hitl_waits(st, is_interactive) ==
    st.terminal_status = Some("ESCALATE") /\ is_interactive

\* hitl_node whose approval clears the escalation
hitl_decide_approve_clears(st, action, notes_typed, edit_typed) ==
    LET reviewer_notes == Strip(notes_typed)
        s1 == [st EXCEPT !.hitl_reviewer_notes =
                            IF reviewer_notes = <<>> THEN None ELSE Some(reviewer_notes)]
    IN  CASE action = "A" ->
                [s1 EXCEPT !.hitl_reviewer_action = Some("approve"),
                           !.final_response = Some(DRAFT),
                           !.terminal_status = Some("READY")]
          [] action = "E" ->
                [s1 EXCEPT !.hitl_reviewer_action = Some("edit"),
                           !.hitl_edited_response = Some(Strip(edit_typed)),
                           !.final_response = Some(Strip(edit_typed))]
          [] OTHER ->
                [s1 EXCEPT !.hitl_reviewer_action = Some("reject"),
                           !.final_response = Some(<<"[REJECTED BY REVIEWER]">>)]

\* hitl_node from a valid action on: the notes prompt and the three branches
hitl_decide(st, action, notes_typed, edit_typed) ==
    LET reviewer_notes == Strip(notes_typed)
        s1 == [st EXCEPT !.hitl_reviewer_notes =
                            IF reviewer_notes = <<>> THEN None ELSE Some(reviewer_notes)]
    IN  CASE action = "A" ->
                [s1 EXCEPT !.hitl_reviewer_action = Some("approve"),
                           !.final_response = Some(DRAFT)]
          [] action = "E" ->
                [s1 EXCEPT !.hitl_reviewer_action = Some("edit"),
                           !.hitl_edited_response = Some(Strip(edit_typed)),
                           !.final_response = Some(Strip(edit_typed))]
          [] OTHER ->
                [s1 EXCEPT !.hitl_reviewer_action = Some("reject"),
                           !.final_response = Some(
                               <<"[REJECTED BY REVIEWER] Customer ">>
                               \o (IF s1.masked_customer_id = None THEN <<"None">>
                                   ELSE Val(s1.masked_customer_id))
                               \o <<": This case has been rejected and flagged for further investigation. Notes: ">>
                               \o (IF reviewer_notes = <<>> THEN <<"None provided.">>
                                   ELSE reviewer_notes))]

\* ---------------------------------------------------------------- output

RECURSIVE Join(_, _)
\* sep.join(parts), each part a str
Join(parts, sep) ==
    IF parts = <<>> THEN <<>>
    ELSE IF Len(parts) = 1 THEN parts[1]
    ELSE parts[1] \o <<sep>> \o Join(Tail(parts), sep)

\* f"{score:.1f}" of a score in hundredths
Fmt1(score) ==
    LET t == RoundDiv(score, 10)
    IN  <<ToString(t \div 10), ".", ToString(t % 10)>>

\* _build_final_response_if_missing that regenerates the text even when an
\* earlier stage has set one (the non-READY branches only)
build_final_response_regenerated(st) ==
    LET cid == IF Truthy(st.masked_customer_id) THEN Val(st.masked_customer_id)
               ELSE <<"UNKNOWN">>
    IN  IF st.terminal_status = Some("READY") /\ st.risk_score = None THEN None
        ELSE Some(<<"Request for customer ">> \o cid \o <<" completed with status: ">>
                  \o (IF st.terminal_status = None THEN <<"None">> ELSE st.terminal_status)
                  \o <<".">>)

\* the response text, or None where the f-string raises TypeError
build_final_response_if_missing(st) ==
    IF Truthy(st.final_response) THEN st.final_response
    ELSE
    LET cid == IF Truthy(st.masked_customer_id) THEN Val(st.masked_customer_id)
               ELSE <<"UNKNOWN">>
        status == st.terminal_status
    IN  IF status = Some("READY")
        THEN IF st.risk_score = None THEN None
             ELSE
             LET metrics == <<"Risk score: ">> \o Fmt1(Val(st.risk_score)) \o <<" (">>
                            \o (IF st.risk_tier = None THEN <<"None">> ELSE st.risk_tier)
                            \o <<" tier). ">>
             IN  CASE st.intent = Some("rescore") ->
                        Some(<<"Customer ">> \o cid \o <<" has been re-scored. ">> \o metrics
                             \o <<"Status: Cleared for normal processing.">>)
                   [] st.intent = Some("suppress_flag") ->
                        Some(<<"Flag suppression for customer ">> \o cid
                             \o <<" has been approved. ">> \o metrics
                             \o <<"The flag has been suppressed as requested.">>)
                   [] st.intent = Some("explain_score") ->
                        Some(<<"Score explanation for customer ">> \o cid \o <<": ">> \o metrics
                             \o <<"See score breakdown for feature-level detail.">>)
                   [] OTHER ->
                        Some(<<"Request for customer ">> \o cid
                             \o <<" processed. Status: READY.">>)
        ELSE IF status = Some("NEED_INFO")
        THEN Some(<<"Cannot process request for customer ">> \o cid
                  \o <<". Additional information required: ">>
                  \o (IF st.missing_fields # <<>>
                      THEN Join([i \in 1..Len(st.missing_fields) |-> <<st.missing_fields[i]>>], ", ")
                      ELSE <<"unspecified fields">>)
                  \* "... {missing}. {errors}".strip()
                  \o (IF st.errors = <<>> THEN <<".">>
                      ELSE <<". ">> \o Join(st.errors, " | ")))
        ELSE Some(<<"Request for customer ">> \o cid \o <<" completed with status: ">>
                  \o (IF status = None THEN <<"None">> ELSE status) \o <<".">>)

build_audit_log(st) ==
    [intent |-> st.intent,
     customer_id_masked |-> IF Truthy(st.masked_customer_id) THEN Val(st.masked_customer_id)
                            ELSE <<"NOT_SET">>,
     terminal_status |-> st.terminal_status,
     route_taken |-> st.route_taken,
     node_path |-> st.node_path,
     risk_score |-> st.risk_score,
     risk_tier |-> st.risk_tier,
     pii_fields_redacted |-> st.pii_fields_redacted,
     moderation_passed |-> st.moderation_passed,
     moderation_reason |-> st.moderation_reason,
     missing_fields |-> st.missing_fields,
     hitl_triggered |-> st.hitl_triggered,
     hitl_reviewer_action |-> st.hitl_reviewer_action,
     hitl_reviewer_notes |-> st.hitl_reviewer_notes,
     tool_call_count |-> st.tool_call_count,
     model_call_count |-> st.model_call_count,
     errors |-> st.errors]

\* the state output_node returns and the audit record it writes to the log
\* file, or the exception it raises before writing anything
output_node(st) ==
    LET s1 == [st EXCEPT !.node_path = Append(@, "output")]
        response == build_final_response_if_missing(s1)
    IN  IF response = None
        THEN [st |-> s1, exc |-> Some("TypeError"), audit |-> None]
        ELSE LET s2 == [s1 EXCEPT !.final_response = response]
             IN  [st |-> s2, exc |-> None, audit |-> Some(build_audit_log(s2))]

\* ------------------------------------------- the sequential runner: run()

NoCalls == [tool |-> 0, model |-> 0]

\* the runner about to call intake_node on `st`
RunnerStarts(st) ==
    /\ state = st
    /\ pc = "intake"
    /\ exc = None
    /\ auto_approve \in BOOLEAN
    /\ log_file = None
    /\ result = None
    /\ ncalls = NoCalls
    /\ visited = <<>>
    /\ reviewer_input = None

RawInputs == {None} \cup {Some(p) : p \in Payloads}

\* ui_app.run_workflow: a fresh RiskWorkflowState(raw_input=workflow_payload)
Init == \E raw \in RawInputs : RunnerStarts(NewState(raw, 0))

\* the runner moves on to `next`, or the node's exception leaves run()
Advance(r, next) ==
    /\ state' = r.st
    /\ exc' = r.exc
    /\ pc' = IF r.exc # None THEN "raised" ELSE next
    /\ visited' = Append(visited, pc)

Intake ==
    /\ pc = "intake"
    /\ LET r == intake_node(state)
       IN  Advance(r, IF r.st.terminal_status = Some("NEED_INFO")
                      THEN "output" ELSE "pii_middleware")
    /\ UNCHANGED <<auto_approve, log_file, result, ncalls, reviewer_input>>

Pii ==
    /\ pc = "pii_middleware"
    /\ Advance(run_pii_middleware(state), "moderation_middleware")
    /\ UNCHANGED <<auto_approve, log_file, result, ncalls, reviewer_input>>

Moderation ==
    /\ pc = "moderation_middleware"
    /\ \E api \in {"no_key"} \cup OpenAIOutcomes :
          Advance(run_moderation_middleware(state, api), "scoring")
    /\ UNCHANGED <<auto_approve, log_file, result, ncalls, reviewer_input>>

Scoring ==
    /\ pc = "scoring"
    /\ Advance(scoring_node(state), "router")
    /\ ncalls' = [ncalls EXCEPT !.tool = @ + 1]
    /\ UNCHANGED <<auto_approve, log_file, result, reviewer_input>>

Router ==
    /\ pc = "router"
    /\ LET r == router_node(state)
       IN  Advance(r, IF r.st.terminal_status = Some("ESCALATE") THEN "hitl" ELSE "output")
    /\ UNCHANGED <<auto_approve, log_file, result, ncalls, reviewer_input>>

\* hitl_node is entered; with a reviewer at a terminal it blocks on input()
Hitl ==
    /\ pc = "hitl"
    /\ \E isatty \in BOOLEAN :
          LET is_interactive == isatty /\ ~auto_approve
          IN  /\ state' = hitl_enter(state, is_interactive)
              /\ pc' = IF hitl_waits(state, is_interactive) THEN "hitl_input" ELSE "output"
    /\ visited' = Append(visited, "hitl")
    /\ UNCHANGED <<exc, auto_approve, log_file, result, ncalls, reviewer_input>>

\* the reviewer types something other than A, E or R: the prompt repeats
HitlInvalidInput ==
    /\ pc = "hitl_input"
    /\ \E typed \in ActionInputs : StripUpper(typed) \notin {"A", "E", "R"}
    /\ UNCHANGED vars

HitlDecision ==
    /\ pc = "hitl_input"
    /\ \E typed \in ActionInputs, notes_typed \in ReviewerTexts, edit_typed \in ReviewerTexts :
          /\ StripUpper(typed) \in {"A", "E", "R"}
          /\ state' = hitl_decide(state, StripUpper(typed), notes_typed, edit_typed)
          \* the edit prompt is shown, and its line read, only after an E
          /\ reviewer_input' = Some([action |-> typed, notes |-> notes_typed,
                                     edit |-> IF StripUpper(typed) = "E"
                                              THEN Some(edit_typed) ELSE None])
    /\ pc' = "output"
    /\ UNCHANGED <<exc, auto_approve, log_file, result, ncalls, visited>>

Output ==
    /\ pc = "output"
    /\ LET r == output_node(state)
       IN  /\ Advance(r, "returned")
           /\ log_file' = r.audit
    /\ UNCHANGED <<auto_approve, result, ncalls, reviewer_input>>

\* ui_app.run_workflow (which binds auto_approve=True): normalize_state of the
\* returned state, or the except branch's substitute result
RunWorkflow ==
    /\ pc \in {"returned", "raised"}
    /\ auto_approve
    /\ result' = IF pc = "returned"
                 THEN Some(state)
                 ELSE Some([terminal_status |-> Some("ESCALATE"),
                            errors |-> << <<"Execution failure: ", Val(exc)>> >>])
    /\ pc' = "done"
    /\ UNCHANGED <<state, exc, auto_approve, log_file, ncalls, visited, reviewer_input>>

Next ==
    \/ Intake
    \/ Pii
    \/ Moderation
    \/ Scoring
    \/ Router
    \/ Hitl
    \/ HitlInvalidInput
    \/ HitlDecision
    \/ Output
    \/ RunWorkflow

Spec == Init /\ [][Next]_vars

\* run() executes its statements one after the other, so a stage that is due
\* is eventually executed, and a reviewer at the prompt eventually enters one
\* of A, E, R. At most one stage is due in any state, and a step of
\* HitlInvalidInput changes nothing, so fairness of Next is fairness of each
\* stage and of HitlDecision.
Fairness == WF_vars(Next)

SpecLive == Init /\ [][Next]_vars /\ Fairness

\* ------------------------- the runner on a state that carries earlier calls

\* tool_call_count of the state handed to run(): fresh, or at either side of
\* the ceiling
CarriedCounts == {0, MAX_TOOL_CALLS - 1, MAX_TOOL_CALLS}

InitCarried == \E raw \in RawInputs, n \in CarriedCounts : RunnerStarts(NewState(raw, n))

SpecCarried == InitCarried /\ [][Next]_vars

\* ------------------------------------------ router_node called on any state

\* (terminal_status, route_taken) of a state handed to router_node
CarriedRoutes ==
    { <<None, None>>,
      <<Some("READY"), Some("low_risk_auto_approved")>>,
      <<Some("NEED_INFO"), Some("invalid_intent")>>,
      <<Some("ESCALATE"), Some("tool_call_limit_exceeded")>> }

RouterScores == {None, Some(0), Some(3999), Some(4000), Some(4500), Some(5500)}
RouterTiers ==
    {None, Some("UNKNOWN"), Some("LOW"), Some("MEDIUM"), Some("HIGH"), Some("CRITICAL")}

RouterStates ==
    { [NewState(None, 0) EXCEPT
          !.terminal_status = tr[1], !.route_taken = tr[2],
          !.moderation_passed = mp, !.missing_fields = mf,
          !.risk_score = sc, !.risk_tier = ti, !.intent = it] :
      tr \in CarriedRoutes,
      mp \in {None, Some(TRUE), Some(FALSE)},
      mf \in {<<>>, <<"txn_count">>},
      sc \in RouterScores,
      ti \in RouterTiers,
      it \in {None} \cup {Some(i) : i \in VALID_INTENTS} }

InitRouter ==
    /\ state \in RouterStates
    /\ pc = "router_call"
    /\ exc = None
    /\ auto_approve = FALSE
    /\ log_file = None
    /\ result = None
    /\ ncalls = NoCalls
    /\ visited = <<>>
    /\ reviewer_input = None

RouterCall ==
    /\ pc = "router_call"
    /\ LET r == router_node(state)
       IN  /\ state' = r.st
           /\ exc' = r.exc
    /\ pc' = "router_returned"
    /\ UNCHANGED <<auto_approve, log_file, result, ncalls, visited, reviewer_input>>

NextRouter == RouterCall

SpecRouter == InitRouter /\ [][NextRouter]_vars

\* ------------------------------- the guards called repeatedly on one state

InitGuard ==
    /\ state = NewState(None, 0)
    /\ pc = "guard"
    /\ exc = None
    /\ auto_approve = FALSE
    /\ log_file = None
    /\ result = None
    /\ ncalls = NoCalls
    /\ visited = <<>>
    /\ reviewer_input = None

\* check_tool_call_limit(state, increment=True); the caller catches the error
ToolCall ==
    /\ pc \in {"guard", "tool_checked", "model_checked"}
    /\ ncalls.tool < MaxGuardCalls
    /\ LET r == check_tool_call_limit(state, TRUE)
       IN  /\ state' = r.st
           /\ exc' = r.exc
    /\ ncalls' = [ncalls EXCEPT !.tool = @ + 1]
    /\ pc' = "tool_checked"
    /\ UNCHANGED <<auto_approve, log_file, result, visited, reviewer_input>>

\* check_model_call_limit(state, increment=True)
ModelCall ==
    /\ pc \in {"guard", "tool_checked", "model_checked"}
    /\ ncalls.model < MaxGuardCalls
    /\ LET r == check_model_call_limit(state, TRUE)
       IN  /\ state' = r.st
           /\ exc' = r.exc
    /\ ncalls' = [ncalls EXCEPT !.model = @ + 1]
    /\ pc' = "model_checked"
    /\ UNCHANGED <<auto_approve, log_file, result, visited, reviewer_input>>

NextGuard == ToolCall \/ ModelCall

SpecGuard == InitGuard /\ [][NextGuard]_vars

\* ------------------------------------------- hitl_node called on any state

\* the states handed to hitl_node: any status, with or without a masked id
HitlStates ==
    { [NewState(None, 0) EXCEPT
          !.terminal_status = tr[1], !.route_taken = tr[2],
          !.masked_customer_id = m] :
      tr \in CarriedRoutes,
      m \in {None, Some(mask_customer_id(<<"C", "4">>))} }

InitHitl ==
    /\ state \in HitlStates
    /\ pc = "hitl"
    /\ exc = None
    /\ auto_approve \in BOOLEAN
    /\ log_file = None
    /\ result = None
    /\ ncalls = NoCalls
    /\ visited = <<>>
    /\ reviewer_input = None

\* the runner, and the runner's hitl and output steps on any state
SpecHitl == (InitCarried \/ InitHitl) /\ [][Next]_vars

\* ----------------------------------- mask_customer_id called on any string

\* identifier characters, the mask character among them
MaskChars == {"C", "4", "*"}

MaskIds == StrsUpTo(MaskChars, MaxMaskLen)

InitMask ==
    /\ state \in {[NewState(None, 0) EXCEPT !.customer_id = Some(id)] : id \in MaskIds}
    /\ pc = "mask_call"
    /\ exc = None
    /\ auto_approve = FALSE
    /\ log_file = None
    /\ result = None
    /\ ncalls = NoCalls
    /\ visited = <<>>
    /\ reviewer_input = None

\* state.masked_customer_id = mask_customer_id(state.customer_id)
MaskCall ==
    /\ pc = "mask_call"
    /\ state' = [state EXCEPT
                 !.masked_customer_id = Some(mask_customer_id(Val(state.customer_id)))]
    /\ pc' = "mask_returned"
    /\ UNCHANGED <<exc, auto_approve, log_file, result, ncalls, visited, reviewer_input>>

\* mask_customer_id applied to its own result
MaskAgain ==
    /\ pc = "mask_returned"
    /\ state' = [state EXCEPT
                 !.masked_customer_id = Some(mask_customer_id(Val(state.masked_customer_id)))]
    /\ pc' = "mask_twice"
    /\ UNCHANGED <<exc, auto_approve, log_file, result, ncalls, visited, reviewer_input>>

NextMask == MaskCall \/ MaskAgain

SpecMask == InitMask /\ [][NextMask]_vars

\* scrub_free_text called directly, and again on its own output
ScrubSegs ==
    {"Routine review", "SSN 123-45-6789 on file", "mail a@b.co now",
     "call 555-123-4567 now", "acct 1234567890123 open", "ref 5551234567 open",
     "id 123-45-6789@b.co ok", "SSN 123-45-6789 mail a@b.co now"}

ScrubTexts == StrsUpTo(ScrubSegs, MaxScrubLen)

InitScrub ==
    /\ state \in {[NewState(None, 0) EXCEPT !.free_text_notes = Some(t)] : t \in ScrubTexts}
    /\ pc = "scrub_call"
    /\ exc = None
    /\ auto_approve = FALSE
    /\ log_file = None
    /\ result = None
    /\ ncalls = NoCalls
    /\ visited = <<>>
    /\ reviewer_input = None

\* scrubbed, found_types = scrub_free_text(state.free_text_notes)
ScrubCall ==
    /\ pc = "scrub_call"
    /\ LET r == scrub_free_text(Val(state.free_text_notes))
       IN  state' = [state EXCEPT !.free_text_notes = Some(r[1]),
                                  !.pii_fields_redacted = r[2]]
    /\ pc' = "scrub_returned"
    /\ UNCHANGED <<exc, auto_approve, log_file, result, ncalls, visited, reviewer_input>>

\* scrub_free_text applied to its own output
ScrubAgain ==
    /\ pc = "scrub_returned"
    /\ LET r == scrub_free_text(Val(state.free_text_notes))
       IN  state' = [state EXCEPT !.free_text_notes = Some(r[1]),
                                  !.pii_fields_redacted = r[2]]
    /\ pc' = "scrub_twice"
    /\ UNCHANGED <<exc, auto_approve, log_file, result, ncalls, visited, reviewer_input>>

NextScrub == ScrubCall \/ ScrubAgain

SpecScrub == InitScrub /\ [][NextScrub]_vars

\* two runs in one process, each on a RiskWorkflowState of its own, their
\* stages interleaved in every order; in this harness every variable of a run
\* holds a pair, one value per run
PairPayloads ==
    {[intent |-> i, customer_id |-> Entry(<<"C">>), notes |-> n, customer_features |-> f] :
        i \in {Entry("rescore"), Entry("suppress_flag"), Entry("delete"), Null},
        n \in {Absent, Entry(<<"This looks FAKE">>)},
        f \in {Absent,
               Entry([txn_count |-> Entry(5), avg_txn_amount |-> Entry(12),
                      high_risk_country |-> Entry(0)]),
               Entry([txn_count |-> Entry(72), avg_txn_amount |-> Entry(4500),
                      high_risk_country |-> Entry(1)])}}

\* both runs are handed the same object
RunOf_shared(states, i) == states[1]

\* the state object the runner of run `i` was called with
RunOf(states, i) == states[i]

\* the node the runner calls at position `at`, and where run() goes next
StageOf(st, at, api) ==
    CASE at = "intake" ->
            LET r == intake_node(st)
            IN  [st |-> r.st, exc |-> r.exc, audit |-> None,
                 next |-> IF r.st.terminal_status = Some("NEED_INFO")
                          THEN "output" ELSE "pii_middleware"]
      [] at = "pii_middleware" ->
            LET r == run_pii_middleware(st)
            IN  [st |-> r.st, exc |-> r.exc, audit |-> None, next |-> "moderation_middleware"]
      [] at = "moderation_middleware" ->
            LET r == run_moderation_middleware(st, api)
            IN  [st |-> r.st, exc |-> r.exc, audit |-> None, next |-> "scoring"]
      [] at = "scoring" ->
            LET r == scoring_node(st)
            IN  [st |-> r.st, exc |-> r.exc, audit |-> None, next |-> "router"]
      [] at = "router" ->
            LET r == router_node(st)
            IN  [st |-> r.st, exc |-> r.exc, audit |-> None,
                 next |-> IF r.st.terminal_status = Some("ESCALATE")
                          THEN "hitl" ELSE "output"]
      [] at = "hitl" ->
            [st |-> hitl_enter(st, FALSE), exc |-> None, audit |-> None, next |-> "output"]
      [] at = "output" ->
            LET r == output_node(st)
            IN  [st |-> r.st, exc |-> r.exc, audit |-> r.audit, next |-> "returned"]

\* run(state) executed alone, from position `at` to its return or exception
RECURSIVE RunFrom(_, _, _)
RunFrom(st, at, api) ==
    IF at \in {"returned", "raised"}
    THEN [st |-> st, at |-> at]
    ELSE LET r == StageOf(st, at, api)
         IN  RunFrom(r.st, IF r.exc # None THEN "raised" ELSE r.next, api)

InitPair ==
    /\ state \in {<<NewState(Some(p1), 0), NewState(Some(p2), 0)>> :
                    p1 \in PairPayloads, p2 \in PairPayloads}
    /\ pc = <<"intake", "intake">>
    /\ exc = <<None, None>>
    /\ auto_approve = TRUE
    /\ log_file = <<None, None>>
    /\ result = None
    /\ ncalls = NoCalls
    /\ visited = <<<<>>, <<>>>>
    /\ reviewer_input = None

\* run `i` executes its next stage
PairStep(i) ==
    /\ pc[i] \notin {"returned", "raised"}
    /\ \E api \in {"no_key"} \cup OpenAIOutcomes :
          LET r == StageOf(RunOf(state, i), pc[i], api)
          IN  /\ state' = [state EXCEPT ![i] = r.st]
              /\ exc' = [exc EXCEPT ![i] = r.exc]
              /\ pc' = [pc EXCEPT ![i] = IF r.exc # None THEN "raised" ELSE r.next]
              /\ log_file' = [log_file EXCEPT ![i] = IF pc[i] = "output" THEN r.audit ELSE @]
    /\ visited' = [visited EXCEPT ![i] = Append(@, pc[i])]
    /\ UNCHANGED <<auto_approve, result, ncalls, reviewer_input>>

NextPair == \E i \in {1, 2} : PairStep(i)

SpecPair == InitPair /\ [][NextPair]_vars

\* the compiled StateGraph beside the sequential runner: both are handed an
\* equal RiskWorkflowState, the same OpenAI outcome and the same reviewer; in
\* this harness every variable of a run holds a pair, run 1 the sequential
\* runner and run 2 the graph, and `result` holds what the environment answers
END == "__end__"

\* the graph routes every escalation past the reviewer
route_after_router_skips_hitl(st) == "output"

route_after_intake(st) ==
    IF st.terminal_status = Some("NEED_INFO") THEN "output" ELSE "pii_middleware"

route_after_router(st) ==
    IF st.terminal_status = Some("ESCALATE") THEN "hitl" ELSE "output"

\* graph.add_node: the names the graph registers
GraphNodes ==
    {"intake", "pii_middleware", "moderation_middleware", "scoring", "router",
     "hitl", "output"}

\* graph.add_edge(source, target)
GraphEdges ==
    {<<"pii_middleware", "moderation_middleware">>,
     <<"moderation_middleware", "scoring">>,
     <<"scoring", "router">>,
     <<"hitl", "output">>,
     <<"output", END>>}

\* graph.add_conditional_edges(source, path, path_map): <<source, key, target>>
GraphPathMaps ==
    {<<"intake", "output", "output">>,
     <<"intake", "pii_middleware", "pii_middleware">>,
     <<"router", "hitl", "hitl">>,
     <<"router", "output", "output">>}

\* the node the compiled graph runs after `node` has returned `st`
GraphSuccessor(node, st) ==
    LET key == CASE node = "intake" -> route_after_intake(st)
                 [] node = "router" -> route_after_router(st)
                 [] OTHER -> ""
    IN  IF \E e \in GraphEdges : e[1] = node
        THEN (CHOOSE e \in GraphEdges : e[1] = node)[2]
        ELSE (CHOOSE m \in GraphPathMaps : m[1] = node /\ m[2] = key)[3]

\* the statement run() executes after `node` has returned `st`
RunSuccessor(node, st) ==
    CASE node = "intake" ->
            IF st.terminal_status = Some("NEED_INFO") THEN "output" ELSE "pii_middleware"
      [] node = "pii_middleware" -> "moderation_middleware"
      [] node = "moderation_middleware" -> "scoring"
      [] node = "scoring" -> "router"
      [] node = "router" ->
            IF st.terminal_status = Some("ESCALATE") THEN "hitl" ELSE "output"
      [] node = "hitl" -> "output"
      [] node = "output" -> "returned"

\* hitl_node(state, auto_approve) with a reviewer who, where the node
\* prompts, ends up entering `review`
HitlNode(st, auto, env) ==
    LET is_interactive == env.isatty /\ ~auto
    IN  IF hitl_waits(st, is_interactive)
        THEN hitl_decide(hitl_enter(st, is_interactive), env.action, env.notes, env.edit)
        ELSE hitl_enter(st, is_interactive)

\* the function registered under `node` (the one run() calls at that
\* position), called on `st`
CallNode(node, st, auto, env) ==
    CASE node = "intake" ->
            LET r == intake_node(st) IN [st |-> r.st, exc |-> r.exc, audit |-> None]
      [] node = "pii_middleware" ->
            LET r == run_pii_middleware(st) IN [st |-> r.st, exc |-> r.exc, audit |-> None]
      [] node = "moderation_middleware" ->
            LET r == run_moderation_middleware(st, env.api)
            IN  [st |-> r.st, exc |-> r.exc, audit |-> None]
      [] node = "scoring" ->
            LET r == scoring_node(st) IN [st |-> r.st, exc |-> r.exc, audit |-> None]
      [] node = "router" ->
            LET r == router_node(st) IN [st |-> r.st, exc |-> r.exc, audit |-> None]
      [] node = "hitl" ->
            [st |-> HitlNode(st, auto, env), exc |-> None, audit |-> None]
      [] node = "output" ->
            LET r == output_node(st) IN [st |-> r.st, exc |-> r.exc, audit |-> r.audit]

GraphReviews ==
    [isatty : BOOLEAN, action : {"A", "E", "R"}, notes : {"", " X "}, edit : {"X"}]

GraphEnvs ==
    {[api |-> a, isatty |-> v.isatty, action |-> v.action, notes |-> v.notes,
      edit |-> v.edit] : a \in {"no_key"} \cup OpenAIOutcomes, v \in GraphReviews}

InitGraph ==
    /\ \E p \in PairPayloads : state = <<NewState(Some(p), 0), NewState(Some(p), 0)>>
    /\ pc = <<"intake", "intake">>
    /\ exc = <<None, None>>
    /\ auto_approve \in BOOLEAN
    /\ log_file = <<None, None>>
    /\ result \in {Some(e) : e \in GraphEnvs}
    /\ ncalls = NoCalls
    /\ visited = <<<<>>, <<>>>>
    /\ reviewer_input = None

\* one of the two executes its next stage
StageStep(i, r, next) ==
    /\ state' = [state EXCEPT ![i] = r.st]
    /\ exc' = [exc EXCEPT ![i] = r.exc]
    /\ pc' = [pc EXCEPT ![i] = IF r.exc # None THEN "raised" ELSE next]
    /\ log_file' = [log_file EXCEPT ![i] = IF pc[i] = "output" THEN r.audit ELSE @]
    /\ visited' = [visited EXCEPT ![i] = Append(@, pc[i])]
    /\ UNCHANGED <<auto_approve, result, ncalls, reviewer_input>>

\* run(state) executes its next statement
RunStep ==
    /\ pc[1] \in GraphNodes
    /\ LET r == CallNode(pc[1], state[1], auto_approve, Val(result))
       IN  StageStep(1, r, RunSuccessor(pc[1], r.st))

\* compiled.invoke(state) runs its next node and follows the edge out of it
GraphStep ==
    /\ pc[2] \in GraphNodes
    /\ LET r == CallNode(pc[2], state[2], auto_approve, Val(result))
       IN  StageStep(2, r, GraphSuccessor(pc[2], r.st))

NextGraph == RunStep \/ GraphStep

SpecGraph == InitGraph /\ [][NextGraph]_vars

\* two runs writing their audit records into one log directory; every run
\* carries the run_id and timestamp its RiskWorkflowState was created with
RunIds == {"1A2B3C4D", "9F8E7D6C"}

\* datetime.utcnow().isoformat() + "Z", as <<its first 10 characters, the rest>>
Timestamps ==
    {<<"2026-11-01", "T09:00:00Z">>, <<"2026-11-01", "T17:30:00Z">>,
     <<"2026-11-02", "T09:00:00Z">>}

LogPayloads ==
    {[intent |-> i, customer_id |-> Entry(<<"C">>), notes |-> Absent,
      customer_features |->
          Entry([txn_count |-> Entry(5), avg_txn_amount |-> Entry(12),
                 high_risk_country |-> Entry(0)])] :
        i \in {Entry("rescore"), Entry("delete")}}

\* RiskWorkflowState(raw_input=...) with the identity its default factories draw
NewRun(id, ts, raw) == [run_id |-> id, timestamp |-> ts] @@ NewState(raw, 0)

\* os.path.join(log_dir, f"run_{state.run_id}_{state.timestamp[:10]}.json")
LogPath(st) == <<"run_", st.run_id, "_", st.timestamp[1], ".json">>

LogPaths == {<<"run_", id, "_", ts[1], ".json">> : id \in RunIds, ts \in Timestamps}

\* the audit record with the run's identity, as _build_audit_log writes it
AuditOf(st) ==
    [run_id |-> st.run_id, timestamp |-> st.timestamp] @@ build_audit_log(st)

InitLogDir ==
    /\ state \in {<<NewRun(i1, t1, Some(p1)), NewRun(i2, t2, Some(p2))>> :
                    i1 \in RunIds, i2 \in RunIds, t1 \in Timestamps, t2 \in Timestamps,
                    p1 \in LogPayloads, p2 \in LogPayloads}
    /\ pc = <<"intake", "intake">>
    /\ exc = <<None, None>>
    /\ auto_approve = TRUE
    /\ log_file = [path \in LogPaths |-> None]
    /\ result = None
    /\ ncalls = NoCalls
    /\ visited = <<<<>>, <<>>>>
    /\ reviewer_input = None

\* run `i` executes its next stage; output_node opens its log file with "w"
LogDirStep(i) ==
    /\ pc[i] \notin {"returned", "raised"}
    /\ LET r == StageOf(state[i], pc[i], "no_key")
       IN  /\ state' = [state EXCEPT ![i] = r.st]
           /\ exc' = [exc EXCEPT ![i] = r.exc]
           /\ pc' = [pc EXCEPT ![i] = IF r.exc # None THEN "raised" ELSE r.next]
           /\ log_file' = IF pc[i] = "output" /\ r.exc = None
                          THEN [log_file EXCEPT ![LogPath(r.st)] = Some(AuditOf(r.st))]
                          ELSE log_file
    /\ visited' = [visited EXCEPT ![i] = Append(@, pc[i])]
    /\ UNCHANGED <<auto_approve, result, ncalls, reviewer_input>>

NextLogDir == \E i \in {1, 2} : LogDirStep(i)

SpecLogDir == InitLogDir /\ [][NextLogDir]_vars

\* the runner on explain_score requests whose features carry long numbers
ExplainPayloads ==
    {[intent |-> i, customer_id |-> Entry(<<"C">>), notes |-> n,
      customer_features |->
          Entry([txn_count |-> Entry(t), avg_txn_amount |-> Entry(a),
                 high_risk_country |-> Entry(h)])] :
        i \in {Entry("explain_score"), Entry("rescore")},
        n \in {Absent, Entry(<<"Routine review">>), Entry(<<"SSN 123-45-6789 on file">>)},
        t \in {5, 1234567890}, a \in {50, 2147483000}, h \in {0, 1}}

InitExplain == \E p \in ExplainPayloads : RunnerStarts(NewState(Some(p), 0))

SpecExplain == InitExplain /\ [][Next]_vars

\* the runner on the two documented end-to-end feature sets
LowRiskFeatures ==
    [txn_count |-> Entry(5), avg_txn_amount |-> Entry(50), high_risk_country |-> Entry(0)]

CriticalRiskFeatures ==
    [txn_count |-> Entry(70), avg_txn_amount |-> Entry(4000), high_risk_country |-> Entry(1)]

ScenarioPayloads ==
    [intent : IntentEntries, customer_id : CustomerIdEntries, notes : NotesEntries,
     customer_features : {Entry(LowRiskFeatures), Entry(CriticalRiskFeatures)}]

InitScenarios == \E p \in ScenarioPayloads : RunnerStarts(NewState(Some(p), 0))

SpecScenarios == InitScenarios /\ [][Next]_vars

\* compute_score called directly on customer_features with the three fields
\* present and numeric
ComputeTxn == {-3, 5, 70, 72, 100}
ComputeAmt == {-1, 12, 50, 4000, 4500, 9000}
ComputeHrc == {-1, 0, 1, 2, 3}

ComputeFeatures ==
    {[txn_count |-> Entry(t), avg_txn_amount |-> Entry(a), high_risk_country |-> Entry(h)] :
        t \in ComputeTxn, a \in ComputeAmt, h \in ComputeHrc}

InitCompute ==
    /\ state \in {NewState(Some([EmptyPayload EXCEPT !.customer_features = Entry(f)]), 0) :
                    f \in ComputeFeatures}
    /\ pc = "compute_call"
    /\ exc = None
    /\ auto_approve = FALSE
    /\ log_file = None
    /\ result = None
    /\ ncalls = NoCalls
    /\ visited = <<>>
    /\ reviewer_input = None

\* result = compute_score(customer_features), folded into the state as
\* scoring_node does
ComputeCall ==
    /\ pc = "compute_call"
    /\ LET res == compute_score(Val(PayloadOf(state).customer_features.value))
       IN  IF res.exc # None
           THEN /\ exc' = res.exc
                /\ pc' = "raised"
                /\ state' = state
                /\ result' = result
           ELSE /\ exc' = None
                /\ pc' = "compute_returned"
                /\ result' = Some([explainability_text |-> res.explainability_text])
                /\ state' = [state EXCEPT !.risk_score = Some(res.score),
                                         !.risk_tier = Some(res.tier),
                                         !.score_breakdown = Some(res.breakdown),
                                         !.missing_fields = res.missing_fields]
    /\ UNCHANGED <<auto_approve, log_file, ncalls, visited, reviewer_input>>

SpecCompute == InitCompute /\ [][ComputeCall]_vars

\* the tier lookup of compute_score on every score of two decimals
InitTier ==
    /\ state \in {[NewState(None, 0) EXCEPT !.risk_score = Some(sc)] : sc \in 0..MaxScore}
    /\ pc = "tier_call"
    /\ exc = None
    /\ auto_approve = FALSE
    /\ log_file = None
    /\ result = None
    /\ ncalls = NoCalls
    /\ visited = <<>>
    /\ reviewer_input = None

\* tier = next(t for threshold, t in TIERS if score >= threshold)
TierCall ==
    /\ pc = "tier_call"
    /\ state' = [state EXCEPT !.risk_tier = TierOf(Val(state.risk_score))]
    /\ pc' = "tier_returned"
    /\ UNCHANGED <<exc, auto_approve, log_file, result, ncalls, visited, reviewer_input>>

SpecTier == InitTier /\ [][TierCall]_vars

\* run_moderation_middleware called directly, beside the runner
ModSegs == {"   ", "Routine review", "This looks FAKE", "A fake threat"}

ModTexts == {None} \cup {Some(t) : t \in StrsUpTo(ModSegs, MaxModLen)}

InitModeration ==
    /\ state \in {[NewState(None, 0) EXCEPT !.free_text_notes = t] : t \in ModTexts}
    /\ pc = "moderation_call"
    /\ exc = None
    /\ auto_approve = FALSE
    /\ log_file = None
    /\ result = None
    /\ ncalls = NoCalls
    /\ visited = <<>>
    /\ reviewer_input = None

\* the position after the call records what the classifier did
ModeratedAt(api) ==
    CASE api = "no_key" -> "moderated_no_key"
      [] api = "pass" -> "moderated_pass"
      [] api = "flagged" -> "moderated_flagged"
      [] api = "error" -> "moderated_error"
      [] api = "unavailable" -> "moderated_unavailable"

ModerationCall ==
    /\ pc = "moderation_call"
    /\ \E api \in {"no_key"} \cup OpenAIOutcomes :
          LET r == run_moderation_middleware(state, api)
          IN  /\ state' = r.st
              /\ exc' = r.exc
              /\ pc' = ModeratedAt(api)
    /\ UNCHANGED <<auto_approve, log_file, result, ncalls, visited, reviewer_input>>

SpecModeration == (Init \/ InitModeration) /\ [][Next \/ ModerationCall]_vars

\* hitl_node and output_node alone, with a reviewer who eventually decides
NextHitl == Hitl \/ HitlInvalidInput \/ HitlDecision \/ Output

SpecHitlLive == InitHitl /\ [][NextHitl]_vars /\ WF_vars(NextHitl)

\* --------------------------- the runner and the stage harnesses side by side

InitStages == InitCarried \/ InitRouter \/ InitGuard

NextStages == Next \/ NextRouter \/ NextGuard

SpecStages == InitStages /\ [][NextStages]_vars

\* ================================================================ claims

Range(s) == {s[i] : i \in 1..Len(s)}

P2 == <<"intake", "output">>
P6 == <<"intake", "pii_middleware", "moderation_middleware", "scoring", "router", "output">>
P7 == <<"intake", "pii_middleware", "moderation_middleware", "scoring", "router", "hitl", "output">>

\* run() has returned its final state
Completed == pc = "returned" \/ (pc = "done" /\ exc = None)

\* C1: node_path always lists exactly the stages entered so far, and the
\* node_path of a run that completes is intake, output (Intake early exit,
\* NEED_INFO), or the five stages up to the router followed by output (READY
\* or NEED_INFO), or the same with hitl before output (ESCALATE).
C1_NodePathShape ==
    /\ state.node_path = visited
    /\ Completed =>
          \/ state.node_path = P2 /\ state.terminal_status = Some("NEED_INFO")
          \/ state.node_path = P6
             /\ state.terminal_status \in {Some("READY"), Some("NEED_INFO")}
          \/ state.node_path = P7 /\ state.terminal_status = Some("ESCALATE")

\* a completed run through the interactive HITL edit path
C1_Witness ==
    /\ pc = "returned"
    /\ state.node_path = P7
    /\ state.hitl_reviewer_action = Some("edit")

\* the (status, route) the priority order of the claim gives a state
C2_Expected(st) ==
    LET score == IF st.risk_score = None THEN 0 ELSE Val(st.risk_score)
    IN  CASE st.moderation_passed = Some(FALSE) -> <<"ESCALATE", "moderation_failure">>
          [] st.moderation_passed # Some(FALSE) /\ st.missing_fields # <<>> ->
                <<"NEED_INFO", "missing_data">>
          [] st.moderation_passed # Some(FALSE) /\ st.missing_fields = <<>>
             /\ st.intent = Some("suppress_flag") /\ score >= 4000 ->
                <<"ESCALATE", "suppress_high_risk_review">>
          [] st.moderation_passed # Some(FALSE) /\ st.missing_fields = <<>>
             /\ ~(st.intent = Some("suppress_flag") /\ score >= 4000)
             /\ st.risk_tier = Some("CRITICAL") ->
                <<"ESCALATE", "critical_risk_auto_escalate">>
          [] st.moderation_passed # Some(FALSE) /\ st.missing_fields = <<>>
             /\ ~(st.intent = Some("suppress_flag") /\ score >= 4000)
             /\ st.risk_tier = Some("HIGH") ->
                <<"ESCALATE", "high_risk_escalate">>
          [] OTHER ->
                <<"READY",
                  CASE st.risk_tier = Some("LOW") -> "low_risk_auto_approved"
                    [] st.risk_tier = Some("MEDIUM") -> "medium_risk_auto_approved"
                    [] OTHER -> "unknown_risk_auto_approved">>

C4_Uncertain(st) ==
    \/ st.risk_tier \in {None, Some("UNKNOWN")}
    \/ st.risk_score = None
    \/ st.moderation_passed = None

\* C4: called on a state whose terminal_status is unset and whose tier is
\* UNKNOWN or unset, whose score is unset or whose moderation result is unset,
\* router_node never assigns READY.
C4_NoUncertainAutoApprove ==
    [][pc = "router_call" /\ state.terminal_status = None /\ C4_Uncertain(state) =>
          state'.terminal_status # Some("READY")]_vars

\* C5: terminal_status is write-once: no step of a run changes a
\* terminal_status that is already set, and router_node called on a state
\* whose terminal_status is set leaves terminal_status and route_taken as
\* they are.
C5_StatusWriteOnce ==
    [][state.terminal_status # None =>
          /\ state'.terminal_status = state.terminal_status
          /\ pc \in {"router", "router_call"} => state'.route_taken = state.route_taken]_vars

\* router_node has returned a state that came in with Intake's early exit
C5_Witness ==
    /\ pc = "router_returned"
    /\ Last(state.node_path) = "router"
    /\ state.terminal_status = Some("NEED_INFO")
    /\ state.route_taken = Some("invalid_intent")
    /\ state.risk_tier = Some("CRITICAL")

\* C6: in every reachable state route_taken is set if and only if
\* terminal_status is set.
C6_RouteIffStatus ==
    (state.route_taken # None) <=> (state.terminal_status # None)

\* the guard has set both while aborting the scoring stage
C6_Witness ==
    /\ pc = "raised"
    /\ exc = Some("CallLimitExceededError")
    /\ state.terminal_status = Some("ESCALATE")
    /\ state.route_taken = Some("tool_call_limit_exceeded")

\* the payload's intent is absent, null, or normalises to none of the three
C7_BadIntent(p) ==
    \/ ~p.intent.present
    \/ p.intent.value = None
    \/ /\ p.intent.value # None
       /\ LowerStrip(Val(p.intent.value)) \notin {"rescore", "suppress_flag", "explain_score"}

\* the payload's customer_id is absent, null or empty
C7_BadCustomerId(p) ==
    \/ ~p.customer_id.present
    \/ p.customer_id.value \in {None, Some(<<>>)}

\* C7: Intake fails closed: once Intake has run on a payload whose intent is
\* absent, null or unrecognised, or whose customer_id is absent or empty, the
\* status is NEED_INFO, the route is invalid_intent (intent is checked first)
\* or missing_customer_id, one error is recorded, only intake and output ever
\* execute, risk_score stays unset and tool_call_count stays 0.
C7_IntakeFailsClosed ==
    LET p == PayloadOf(state)
    IN  pc # "intake" /\ (C7_BadIntent(p) \/ C7_BadCustomerId(p)) =>
            /\ exc = None
            /\ state.terminal_status = Some("NEED_INFO")
            /\ state.route_taken =
                   Some(IF C7_BadIntent(p) THEN "invalid_intent" ELSE "missing_customer_id")
            /\ Len(state.errors) = 1
            /\ visited \in {<<"intake">>, <<"intake", "output">>}
            /\ state.risk_score = None
            /\ state.tool_call_count = 0

\* a null intent has taken intake_node out through an AttributeError
C7_Witness ==
    /\ pc = "raised"
    /\ exc = Some("AttributeError")
    /\ PayloadOf(state).intent = Null
    /\ state.terminal_status = None
    /\ state.errors = <<>>

\* C8: no run terminates without its three outputs: whenever run() has been
\* left, normally or through a fault raised in a stage, output was the last
\* stage to execute, the state has a terminal status, a non-empty
\* final_response and a written audit record, and after a fault the status is
\* ESCALATE with the fault recorded in errors.
C8_AlwaysThreeOutputs ==
    pc \in {"returned", "raised", "done"} =>
        /\ visited # <<>>
        /\ Last(visited) = "output"
        /\ Last(state.node_path) = "output"
        /\ state.terminal_status # None
        /\ Truthy(state.final_response)
        /\ log_file # None
        /\ exc # None =>
              /\ state.terminal_status = Some("ESCALATE")
              /\ state.errors # <<>>

\* the caller of ui_app.run_workflow holds the substitute result of a run
\* that scoring aborted: no final response, no audit record, no output stage
C8_Witness ==
    /\ pc = "done"
    /\ exc = Some("StopIteration")
    /\ result = Some([terminal_status |-> Some("ESCALATE"),
                      errors |-> << <<"Execution failure: ", "StopIteration">> >>])
    /\ Last(state.node_path) = "scoring"
    /\ state.final_response = None
    /\ log_file = None

\* the overage messages of the two guards, for a counter that reached n
C9_ToolOverage(n) ==
    <<"ToolCallLimitMiddleware: Limit of ", "10", " tool calls exceeded (current: ",
      ToString(n), "). Run aborted.">>

C9_ModelOverage(n) ==
    <<"ModelCallLimitMiddleware: Limit of ", "5", " model calls exceeded (current: ",
      ToString(n), "). Run aborted.">>

\* the step is the guard's refusal, and nothing that scoring computes moved
C9_Refused(msg) ==
    /\ exc' = Some("CallLimitExceededError")
    /\ state'.terminal_status = Some("ESCALATE")
    /\ state'.errors = Append(state.errors, msg)
    /\ state'.risk_score = state.risk_score
    /\ state'.risk_tier = state.risk_tier
    /\ state'.score_breakdown = state.score_breakdown
    /\ state'.missing_fields = state.missing_fields
    /\ state'.free_text_notes = state.free_text_notes

\* C9: a guard call that takes tool_call_count (or model_call_count) above its
\* ceiling sets terminal_status = ESCALATE, appends the overage message and
\* raises CallLimitExceededError; in the scoring stage compute_score is not
\* called (risk_score, risk_tier, score_breakdown and missing_fields keep
\* their values), the run stops there, and nothing changes the state later.
C9_LimitAborts ==
    /\ [][/\ pc = "scoring" /\ state.tool_call_count >= 10 =>
                /\ C9_Refused(C9_ToolOverage(state.tool_call_count + 1))
                /\ pc' = "raised"
          /\ ncalls'.tool # ncalls.tool /\ state.tool_call_count >= 10 =>
                C9_Refused(C9_ToolOverage(state.tool_call_count + 1))
          /\ ncalls'.model # ncalls.model /\ state.model_call_count >= 5 =>
                C9_Refused(C9_ModelOverage(state.model_call_count + 1))
          /\ pc = "raised" => state' = state /\ pc' = "done"]_vars
    /\ [](exc = Some("CallLimitExceededError") /\ pc \in {"raised", "done"} =>
            /\ Last(state.node_path) = "scoring"
            /\ Last(visited) = "scoring"
            /\ state.risk_score = None
            /\ log_file = None)

\* the eleventh tool call has aborted the scoring stage of a run whose payload
\* carries a complete feature set
C9_Witness ==
    /\ pc = "raised"
    /\ exc = Some("CallLimitExceededError")
    /\ state.tool_call_count = 11
    /\ Last(state.node_path) = "scoring"
    /\ state.errors = <<C9_ToolOverage(11)>>
    /\ Get(PayloadOf(state).customer_features, None) =
           Some([txn_count |-> Entry(72), avg_txn_amount |-> Entry(4500),
                 high_risk_country |-> Entry(1)])

\* C10: starting from counters at 0, the counters equal the number of guard
\* calls made, tool calls number 1..10 return normally and every later one
\* raises, model calls number 1..5 return normally and every later one raises.
C10_CeilingExact ==
    /\ state.tool_call_count = ncalls.tool
    /\ state.model_call_count = ncalls.model
    /\ pc = "tool_checked" => ((exc = None) <=> (ncalls.tool <= 10))
    /\ pc = "model_checked" => ((exc = None) <=> (ncalls.model <= 5))

\* the sixth model call fails right after the eleventh tool call failed
C10_Witness ==
    /\ pc = "model_checked"
    /\ ncalls.tool = 11
    /\ ncalls.model = 6
    /\ exc = Some("CallLimitExceededError")
    /\ state.errors = <<C9_ToolOverage(11), C9_ModelOverage(6)>>

\* any of the HITL fields of the state is populated
C11_HitlPopulated(st) ==
    \/ st.hitl_triggered
    \/ st.hitl_reviewer_action # None
    \/ st.hitl_reviewer_notes # None
    \/ st.hitl_edited_response # None

\* C11: HITL state is populated only on escalation: in every reachable state
\* a populated HITL field implies terminal_status = ESCALATE, and hitl_node
\* called on a state whose status is not ESCALATE sets none of the HITL
\* fields and does not set final_response.
C11_HitlOnlyOnEscalate ==
    /\ [](C11_HitlPopulated(state) => state.terminal_status = Some("ESCALATE"))
    /\ [][pc = "hitl" /\ state.terminal_status # Some("ESCALATE") =>
             /\ ~C11_HitlPopulated(state')
             /\ state'.final_response = state.final_response
             /\ state'.terminal_status = state.terminal_status
             /\ pc' = "output"]_vars

\* hitl_node has passed a READY state through untouched
C11_Witness ==
    /\ pc = "output"
    /\ Last(state.node_path) = "hitl"
    /\ state.terminal_status = Some("READY")
    /\ ~C11_HitlPopulated(state)
    /\ state.final_response = None

\* C12: every escalated run is reviewed before output: whenever the runner
\* is about to call output_node, or has called it, on a state whose
\* terminal_status is ESCALATE, hitl_triggered is true, the reviewer action is
\* approve, edit or reject, and "hitl" is the entry of node_path right before
\* "output".
C12_EscalatedIsReviewed ==
    state.terminal_status = Some("ESCALATE") /\ (pc = "output" \/ "output" \in Range(visited)) =>
        /\ state.hitl_triggered
        /\ state.hitl_reviewer_action \in {Some("approve"), Some("edit"), Some("reject")}
        /\ IF pc = "output"
           THEN Last(state.node_path) = "hitl"
           ELSE /\ Len(state.node_path) >= 2
                /\ Last(state.node_path) = "output"
                /\ state.node_path[Len(state.node_path) - 1] = "hitl"

\* a run escalated by moderation has been rejected by the reviewer and logged
C12_Witness ==
    /\ pc = "returned"
    /\ state.terminal_status = Some("ESCALATE")
    /\ state.route_taken = Some("moderation_failure")
    /\ state.hitl_reviewer_action = Some("reject")
    /\ log_file # None

\* a line of reviewer input as a text, character for character
C13_AsTyped(line) == IF line = "" THEN <<>> ELSE <<line>>

\* C13: on the HITL edit path, whatever replacement text the reviewer typed
\* (with leading or trailing whitespace, or empty), final_response after
\* output_node is that text exactly.
C13_EditVerbatim ==
    /\ "output" \in Range(visited)
    /\ reviewer_input # None
    /\ state.hitl_reviewer_action = Some("edit")
    => state.final_response = Some(C13_AsTyped(Val(Val(reviewer_input).edit)))

\* the reviewer replaced the draft by the empty text and output_node put its
\* generic completion message in its place
C13_Witness ==
    /\ pc = "returned"
    /\ reviewer_input # None
    /\ Val(reviewer_input).edit = Some("")
    /\ state.hitl_edited_response = Some(<<>>)
    /\ state.final_response =
           Some(<<"Request for customer ">> \o Val(state.masked_customer_id)
                \o <<" completed with status: ", "ESCALATE", ".">>)

\* the texts the state and the audit record hold after a run
C14_TextsKept ==
    {state.free_text_notes, state.moderation_reason, state.hitl_reviewer_notes,
     state.hitl_edited_response, state.final_response}
    \cup {Some(e) : e \in Range(state.errors)}
    \cup (IF log_file = None THEN {}
          ELSE {Val(log_file).moderation_reason, Val(log_file).hitl_reviewer_notes}
               \cup {Some(e) : e \in Range(Val(log_file).errors)})

\* C14: on the HITL edit path the original draft is retained for audit: after
\* the run the state or the audit record holds the unmodified draft in a field
\* other than final_response, and final_response is not the draft.
C14_DraftRetained ==
    /\ pc \in {"returned", "done"}
    /\ state.hitl_reviewer_action = Some("edit")
    => /\ Some(DRAFT) \in C14_TextsKept \ {state.final_response}
       /\ state.final_response # Some(DRAFT)

\* an edited run has completed and neither the state nor the audit record
\* holds the draft anywhere
C14_Witness ==
    /\ pc = "returned"
    /\ state.hitl_reviewer_action = Some("edit")
    /\ state.hitl_edited_response = Some(<<"X">>)
    /\ state.final_response = Some(<<"X">>)
    /\ Some(DRAFT) \notin C14_TextsKept

\* the fixed rejection text for a masked id and the reviewer's notes
C15_RejectionText(masked, notes) ==
    <<"[REJECTED BY REVIEWER] Customer ">> \o masked
    \o <<": This case has been rejected and flagged for further investigation. Notes: ">>
    \o (IF notes = None THEN <<"None provided.">> ELSE Val(notes))

\* C15: the HITL decision determines the final response: after output_node,
\* an approved run (a reviewer's approval or the automatic one) has the
\* standard draft as final_response and a rejected run has the rejection text
\* with masked_customer_id and the reviewer notes ('None provided.' without
\* notes); output_node never replaces a non-empty final_response.
C15_DecisionIsResponse ==
    /\ [](state.hitl_triggered /\ "output" \in Range(visited) =>
            /\ reviewer_input = None => state.hitl_reviewer_action = Some("approve")
            /\ state.hitl_reviewer_action = Some("approve") =>
                  state.final_response = Some(DRAFT)
            /\ state.hitl_reviewer_action = Some("reject") =>
                  state.final_response =
                      Some(C15_RejectionText(Val(state.masked_customer_id),
                                             state.hitl_reviewer_notes)))
    /\ [][pc = "output" /\ Truthy(state.final_response) =>
             state'.final_response = state.final_response]_vars

\* a rejected run without notes has been through output_node
C15_Witness ==
    /\ pc = "returned"
    /\ state.hitl_reviewer_action = Some("reject")
    /\ state.hitl_reviewer_notes = None
    /\ state.masked_customer_id = Some(<<"*", "*", "*", "*", "C">>)
    /\ state.final_response =
           Some(<<"[REJECTED BY REVIEWER] Customer ", "*", "*", "*", "*", "C",
                  ": This case has been rejected and flagged for further investigation. Notes: ",
                  "None provided.">>)

\* the HITL fields of an audit record
C16_HitlFields(audit) ==
    <<audit.hitl_triggered, audit.hitl_reviewer_action, audit.hitl_reviewer_notes>>

\* the HITL fields in the audit record of every automatically approved run
C16_AutoApprovedFields ==
    C16_HitlFields(build_audit_log(
        hitl_enter([NewState(None, 0) EXCEPT !.terminal_status = Some("ESCALATE")], FALSE)))

\* C16: an automatic approval is always distinguishable from a human one in
\* the audit record: the HITL fields logged for a run approved by an
\* interactive reviewer, whatever notes were entered, differ from the HITL
\* fields logged for an automatically approved run.
C16_AutoDistinguishable ==
    /\ log_file # None
    /\ reviewer_input # None
    /\ state.hitl_reviewer_action = Some("approve")
    => C16_HitlFields(Val(log_file)) # C16_AutoApprovedFields

\* a reviewer at a terminal approved with the notes the automatic mode writes
C16_Witness ==
    /\ log_file # None
    /\ ~auto_approve
    /\ reviewer_input =
           Some([action |-> "A", notes |-> "Auto-approved (non-interactive mode)",
                 edit |-> None])
    /\ C16_HitlFields(Val(log_file)) =
           <<TRUE, Some("approve"), Some(<<"Auto-approved (non-interactive mode)">>)>>

\* C17: every run eventually reaches output_node (hitl_node does not wait
\* for input when no interactive reviewer is attached, repeats its prompt on
\* every input other than A/E/R, and completes once the reviewer enters a
\* valid action).
C17_ReachesOutput == <>("output" \in Range(visited))

\* the part of C17 that concerns the gate alone: with auto_approve set
\* hitl_node hands over to output_node in one step without reading input,
\* an invalid input leaves the gate waiting, and every run that enters
\* hitl_node reaches output_node
C17_GateCompletes ==
    /\ [][/\ pc = "hitl" /\ auto_approve => pc' = "output" /\ reviewer_input' = None
          /\ pc = "hitl_input" => pc' \in {"hitl_input", "output"}]_vars
    /\ (pc = "hitl") ~> (pc = "output")

\* a run has ended in ui_app's except branch without ever entering output_node
C17_Witness ==
    /\ pc = "done"
    /\ exc = Some("AttributeError")
    /\ visited = <<"intake">>
    /\ result # None

\* `raw` occurs, whole, as a contiguous part of `text`
C18_Occurs(raw, text) ==
    \E i \in 1..(Len(text) - Len(raw) + 1) : SubSeq(text, i, i + Len(raw) - 1) = raw

\* the texts of an audit record
C18_AuditTexts(audit) ==
    {audit.customer_id_masked, audit.intent, audit.terminal_status, audit.route_taken,
     audit.risk_tier, audit.hitl_reviewer_action, audit.node_path,
     audit.pii_fields_redacted, audit.missing_fields}
    \cup {Val(o) : o \in {audit.moderation_reason, audit.hitl_reviewer_notes} \ {None}}
    \cup Range(audit.errors)

\* C18: for every non-empty customer_id, of any length, once the PII
\* middleware has run the raw customer_id does not occur, whole, in any field
\* of the audit record.
C18_RawIdNotLogged ==
    log_file # None /\ Truthy(state.customer_id) =>
        \A t \in C18_AuditTexts(Val(log_file)) : ~C18_Occurs(Val(state.customer_id), t)

\* the audit record of a run for customer "C" carries "****C"
C18_Witness ==
    /\ log_file # None
    /\ state.customer_id = Some(<<"C">>)
    /\ "pii_middleware" \in Range(visited)
    /\ Val(log_file).customer_id_masked = <<"*", "*", "*", "*", "C">>

\* C19: mask_customer_id never returns its input unchanged, for every
\* non-empty string, strings of or beginning with '*' included.
C19_MaskDiffers ==
    pc = "mask_returned" /\ state.customer_id # Some(<<>>) =>
        state.masked_customer_id # state.customer_id

\* "****C4" has come back from mask_customer_id as "****C4"
C19_Witness ==
    /\ pc = "mask_returned"
    /\ state.customer_id = Some(<<"*", "*", "*", "*", "C", "4">>)
    /\ state.masked_customer_id = Some(<<"*", "*", "*", "*", "C", "4">>)

C21_MaskIdempotent ==
    [][pc = "mask_returned" =>
        state'.masked_customer_id = state.masked_customer_id]_vars

\* "C" is masked as "****C", and "****C" as "*****C"
C21_Witness ==
    /\ pc = "mask_twice"
    /\ state.customer_id = Some(<<"C">>)
    /\ state.masked_customer_id = Some(<<"*", "*", "*", "*", "*", "C">>)

\* the empty identifier is masked as "UNKNOWN", and "UNKNOWN" as "*****WN"
C21_EmptyWitness ==
    /\ pc = "mask_twice"
    /\ state.customer_id = Some(<<>>)
    /\ state.masked_customer_id = Some(<<"*", "*", "*", "*", "*", "W", "N">>)

\* C22: scrub_free_text is complete and idempotent: its output holds no
\* match of any of the four PII classes (ssn, email, phone, account_num), and
\* applied to its own output it returns the same text with an empty
\* redaction list.
C22_NoMatchLeft(text) ==
    \A t \in {"ssn", "email", "phone", "account_num"} :
        \A k \in 1..Len(text) : ~PatternMatches(t, text[k])

C22_ScrubComplete ==
    /\ [](pc \in {"scrub_returned", "scrub_twice"} =>
            C22_NoMatchLeft(Val(state.free_text_notes)))
    /\ [][pc = "scrub_returned" =>
            /\ state'.free_text_notes = state.free_text_notes
            /\ state'.pii_fields_redacted = <<>>]_vars

\* a note with a phone number that is also a 10-digit account number, and an
\* SSN used as the local part of an e-mail address, scrubbed twice
C22_Witness ==
    /\ pc = "scrub_twice"
    /\ state.free_text_notes =
           Some(<<"ref [REDACTED-PHONE] open", "id [REDACTED-SSN]@b.co ok">>)
    /\ state.pii_fields_redacted = <<>>

\* C23: the moderation stage always yields a definitive answer and never
\* aborts the run: for every text and every outcome of the external
\* classifier (pass, flagged, raised error, unavailable, no API key),
\* moderation_passed is set to true or false with a non-empty reason before
\* scoring runs; it is true whenever the text is absent, empty or only
\* whitespace; and on any failure of the classifier, or without an API key,
\* the result is that of the keyword heuristic: the first keyword of the
\* denylist found as a case-insensitive substring fails the text.
C23_Answered(st) ==
    /\ st.moderation_passed \in {Some(TRUE), Some(FALSE)}
    /\ st.moderation_reason # None
    /\ Val(st.moderation_reason) # <<>>

C23_KeywordsFound(text) ==
    {i \in 1..Len(FLAGGED_KEYWORDS) :
        \E k \in 1..Len(text) : KeywordIn(FLAGGED_KEYWORDS[i], text[k])}

C23_Moderated ==
    pc \in {"moderated_no_key", "moderated_pass", "moderated_flagged",
            "moderated_error", "moderated_unavailable"}

C23_ModerationDefinitive ==
    /\ [][pc = "moderation_middleware" => pc' = "scoring" /\ exc' = None]_vars
    /\ []("moderation_middleware" \in Range(visited) => C23_Answered(state))
    /\ [](C23_Moderated =>
            /\ exc = None
            /\ C23_Answered(state)
            /\ (state.free_text_notes = None \/ IsBlank(Val(state.free_text_notes))
                    => state.moderation_passed = Some(TRUE))
            /\ ((/\ pc \in {"moderated_no_key", "moderated_error", "moderated_unavailable"}
                 /\ state.free_text_notes # None
                 /\ ~IsBlank(Val(state.free_text_notes)))
                    => LET found == C23_KeywordsFound(Val(state.free_text_notes))
                       IN  /\ state.moderation_passed = Some(found = {})
                           /\ \A i \in found :
                                 (\A j \in found : i <= j) =>
                                    Val(state.moderation_reason)[2] = FLAGGED_KEYWORDS[i]))

\* the classifier raised on "A fake threat": the heuristic fails the text on
\* "threat", the first keyword of the denylist it contains
C23_Witness ==
    /\ pc = "moderated_error"
    /\ state.free_text_notes = Some(<<"Routine review", "A fake threat">>)
    /\ state.moderation_passed = Some(FALSE)
    /\ state.moderation_reason =
           Some(<<"Flagged by heuristic moderation: keyword '", "threat", "' detected.">>)

\* C24: when customer_features is given but any of txn_count,
\* avg_txn_amount, high_risk_country is absent or null, compute_score returns
\* score 0, tier UNKNOWN, an empty breakdown and missing_fields equal to
\* exactly the lacking required fields in their fixed order, and when
\* moderation passed the run ends NEED_INFO with route missing_data.
C24_Features == PayloadOf(state).customer_features

C24_Lacks(f) ==
    LET e == Val(C24_Features.value)[f] IN ~e.present \/ e.value = None

C24_Case ==
    /\ C24_Features.present
    /\ C24_Features.value # None
    /\ Val(C24_Features.value) # EmptyFeatures
    /\ \E f \in {"txn_count", "avg_txn_amount", "high_risk_country"} : C24_Lacks(f)

C24_Missing ==
    (IF C24_Lacks("txn_count") THEN <<"txn_count">> ELSE <<>>)
    \o (IF C24_Lacks("avg_txn_amount") THEN <<"avg_txn_amount">> ELSE <<>>)
    \o (IF C24_Lacks("high_risk_country") THEN <<"high_risk_country">> ELSE <<>>)

C24_MissingFeatures ==
    C24_Case =>
        /\ "scoring" \in Range(visited) =>
              /\ exc = None
              /\ state.risk_score = Some(0)
              /\ state.risk_tier = Some("UNKNOWN")
              /\ state.score_breakdown = Some(<<>>)
              /\ state.missing_fields = C24_Missing
        /\ "router" \in Range(visited) /\ state.moderation_passed = Some(TRUE) =>
              /\ state.terminal_status = Some("NEED_INFO")
              /\ state.route_taken = Some("missing_data")
              /\ "hitl" \notin Range(visited)

\* a run with txn_count null and high_risk_country absent has completed
C24_Witness ==
    /\ Completed
    /\ C24_Case
    /\ Val(C24_Features.value).txn_count = Null
    /\ state.moderation_passed = Some(TRUE)
    /\ state.missing_fields = <<"txn_count", "high_risk_country">>
    /\ state.terminal_status = Some("NEED_INFO")
    /\ visited = P6

\* C25: a payload with a valid intent and customer_id but no (or a null or
\* empty) customer_features leaves scoring with missing_fields =
\* ["customer_features"] and no score computed (risk_score, risk_tier and
\* score_breakdown stay unset), and, when moderation passed, the run ends
\* NEED_INFO with route missing_data.
C25_Case ==
    /\ "scoring" \in Range(visited)
    /\ \/ ~C24_Features.present
       \/ C24_Features.value = None
       \/ Val(C24_Features.value) = EmptyFeatures

C25_NotScored ==
    /\ exc = None
    /\ state.missing_fields = <<"customer_features">>
    /\ state.risk_score = None
    /\ state.risk_tier = None
    /\ state.score_breakdown = None

C25_NoFeaturesNeedInfo ==
    C25_Case =>
        /\ C25_NotScored
        /\ "router" \in Range(visited) /\ state.moderation_passed = Some(TRUE) =>
              /\ state.terminal_status = Some("NEED_INFO")
              /\ state.route_taken = Some("missing_data")

\* C25 as stated, for every note: the run ends NEED_INFO whenever
\* customer_features is missing
C25_AlwaysNeedInfo ==
    C25_Case /\ "router" \in Range(visited) =>
        state.terminal_status = Some("NEED_INFO")

\* a run whose payload has an empty customer_features object has completed
C25_Witness ==
    /\ Completed
    /\ C25_Case
    /\ C24_Features = Entry(EmptyFeatures)
    /\ state.moderation_passed = Some(TRUE)
    /\ state.terminal_status = Some("NEED_INFO")
    /\ state.route_taken = Some("missing_data")
    /\ visited = P6

C26_BoundaryWitness ==
    /\ pc = "tier_returned"
    /\ state.risk_score = Some(5500)
    /\ state.risk_tier = Some("CRITICAL")

\* C27: for every customer_features with the three required fields present
\* and numeric (txn_count and avg_txn_amount of any magnitude or sign,
\* high_risk_country any integer), compute_score returns without raising a
\* score within 0.0..100.0 and a tier among LOW, MEDIUM, HIGH, CRITICAL.
C27_ScoreInRange ==
    pc # "compute_call" =>
        /\ exc = None
        /\ state.risk_score # None
        /\ Val(state.risk_score) \in 0..10000
        /\ state.risk_tier \in {Some("LOW"), Some("MEDIUM"), Some("HIGH"), Some("CRITICAL")}

\* {txn_count: 5, avg_txn_amount: 50, high_risk_country: -1}: compute_score
\* has raised StopIteration
C27_Witness ==
    /\ pc = "raised"
    /\ exc = Some("StopIteration")
    /\ PayloadOf(state).customer_features =
           Entry([txn_count |-> Entry(5), avg_txn_amount |-> Entry(50),
                  high_risk_country |-> Entry(-1)])

\* {txn_count: 70, avg_txn_amount: 4000, high_risk_country: 3}: compute_score
\* has returned 134.4
C27_AboveWitness ==
    /\ pc = "compute_returned"
    /\ state.risk_score = Some(13440)
    /\ state.risk_tier = Some("CRITICAL")
    /\ PayloadOf(state).customer_features =
           Entry([txn_count |-> Entry(70), avg_txn_amount |-> Entry(4000),
                  high_risk_country |-> Entry(3)])

\* C28: end to end, features {txn_count=5, avg_txn_amount=50,
\* high_risk_country=0} give a normalized txn_count of 0.0429 and
\* avg_txn_amount of 0.0085, a score of 2.05 and tier LOW, and, with
\* moderation passing and an intent other than suppress_flag, terminal status
\* READY with the human review not triggered.
C28_Scored ==
    /\ C24_Features = Entry(LowRiskFeatures)
    /\ "scoring" \in Range(visited)

C28_Routed ==
    /\ C28_Scored
    /\ "router" \in Range(visited)
    /\ state.moderation_passed = Some(TRUE)
    /\ state.intent # Some("suppress_flag")

C28_Outcome ==
    /\ C28_Scored =>
          /\ exc = None
          /\ state.risk_tier = Some("LOW")
          /\ Val(state.score_breakdown).txn_count.normalized_score = 429
          /\ Val(state.score_breakdown).avg_txn_amount.normalized_score = 85
    /\ C28_Routed =>
          /\ state.terminal_status = Some("READY")
          /\ state.hitl_triggered = FALSE
          /\ "hitl" \notin Range(visited)

C28_LowRiskScenario ==
    /\ C28_Outcome
    /\ C28_Scored => state.risk_score = Some(205)

\* C28 as stated: the score is about 3.4 (3.35 up to 3.45)
C28_ScoreAbout3_4 ==
    /\ C28_Outcome
    /\ C28_Scored => Val(state.risk_score) \in 335..345

\* a rescore run on the low-risk features has completed READY
C28_Witness ==
    /\ Completed
    /\ C28_Routed
    /\ state.intent = Some("rescore")
    /\ state.risk_score = Some(205)
    /\ state.terminal_status = Some("READY")
    /\ visited = P6

\* C29: end to end, features {txn_count=70, avg_txn_amount=4000,
\* high_risk_country=1} give a score of 94.4 and tier CRITICAL, terminal
\* status ESCALATE, and the human review is engaged: hitl_triggered is true
\* and "hitl" is in node_path when the run completes.
C29_Scored ==
    /\ C24_Features = Entry(CriticalRiskFeatures)
    /\ "scoring" \in Range(visited)

C29_Outcome ==
    /\ C29_Scored =>
          /\ pc # "raised"
          /\ state.risk_tier = Some("CRITICAL")
    /\ C29_Scored /\ "router" \in Range(visited) =>
          /\ state.terminal_status = Some("ESCALATE")
          /\ pc \in {"output", "done", "returned"} => "hitl" \in Range(visited)
    /\ C29_Scored /\ "hitl" \in Range(visited) =>
          /\ state.hitl_triggered = TRUE
          /\ "hitl" \in Range(state.node_path)

C29_CriticalScenario ==
    /\ C29_Outcome
    /\ C29_Scored => state.risk_score = Some(9440)

\* C29 as stated: the score is about 97 or more (96.5 and above)
C29_ScoreAbout97 ==
    /\ C29_Outcome
    /\ C29_Scored => Val(state.risk_score) >= 9650

\* a run on the critical-risk features has completed after the human review
C29_Witness ==
    /\ Completed
    /\ C29_Scored
    /\ state.risk_score = Some(9440)
    /\ state.terminal_status = Some("ESCALATE")
    /\ state.route_taken = Some("critical_risk_auto_escalate")
    /\ state.hitl_triggered = TRUE
    /\ visited = P7

\* C30: two runs on separate RiskWorkflowState objects are independent: in
\* every interleaving of their stages, a stage of one run leaves the other
\* run's state, position and node path as they were, and each run's final
\* state (status, route, node_path, score, tier, counters, errors,
\* final_response and the rest) and outcome are those of the same run
\* executed alone on its payload.
C30_Alone(i) ==
    \E api \in {"no_key"} \cup OpenAIOutcomes :
        LET alone == RunFrom(NewState(state[i].raw_input, 0), "intake", api)
        IN  alone.st = state[i] /\ alone.at = pc[i]

C30_BothWitness ==
    /\ pc = <<"returned", "returned">>
    /\ state[1].terminal_status = Some("READY")
    /\ state[2].terminal_status = Some("NEED_INFO")
    /\ state[2].route_taken = Some("missing_data")

\* C31: distinct runs never clobber each other's audit log: once two runs
\* writing to the same log directory have both finished, the file of each
\* holds that run's own audit record.
C31_LogsKept ==
    \A i \in {1, 2} :
        pc = <<"returned", "returned">> =>
            log_file[LogPath(state[i])] = Some(AuditOf(state[i]))

\* two runs created on the same day drew the same run_id: both have returned
\* and the one file holds only the second run's record
C31_Witness ==
    /\ pc = <<"returned", "returned">>
    /\ state[1].run_id = state[2].run_id
    /\ state[1].timestamp = <<"2026-11-01", "T09:00:00Z">>
    /\ state[2].timestamp = <<"2026-11-01", "T17:30:00Z">>
    /\ LogPath(state[1]) = LogPath(state[2])
    /\ log_file[LogPath(state[1])] = Some(AuditOf(state[2]))

\* C32: at the end of every run, missing_fields is non-empty if and only if
\* scoring did not run to completion (no score with a tier among LOW, MEDIUM,
\* HIGH, CRITICAL was produced), on every path.
C32_ScoringCompleted ==
    /\ state.risk_score # None
    /\ state.risk_tier \in {Some("LOW"), Some("MEDIUM"), Some("HIGH"), Some("CRITICAL")}

C32_MissingIffNotScored ==
    pc \in {"returned", "raised", "done"} =>
        (state.missing_fields # <<>> <=> ~C32_ScoringCompleted)

\* a run with an unknown intent has returned after intake and output: nothing
\* was scored and missing_fields is empty
C32_Witness ==
    /\ pc = "returned"
    /\ visited = P2
    /\ state.route_taken = Some("invalid_intent")
    /\ state.risk_score = None
    /\ state.missing_fields = <<>>

\* C33: tool_call_count and model_call_count never decrease: over every step
\* of a run each counter's new value is at least its previous value, each
\* check with increment adds exactly 1 to its counter, and a check that
\* fails leaves its counter incremented, above the ceiling.
C33_CountersMonotone ==
    [][/\ state'.tool_call_count >= state.tool_call_count
       /\ state'.model_call_count >= state.model_call_count
       /\ ncalls'.tool # ncalls.tool =>
             /\ state'.tool_call_count = state.tool_call_count + 1
             /\ state'.model_call_count = state.model_call_count
             /\ (exc' = Some("CallLimitExceededError") =>
                    state'.tool_call_count > MAX_TOOL_CALLS)
       /\ ncalls'.model # ncalls.model =>
             /\ state'.model_call_count = state.model_call_count + 1
             /\ state'.tool_call_count = state.tool_call_count
             /\ (exc' = Some("CallLimitExceededError") =>
                    state'.model_call_count > MAX_MODEL_CALLS)]_vars

\* the eleventh and twelfth tool checks have both failed: the counter is 12
C33_Witness ==
    /\ pc = "tool_checked"
    /\ exc = Some("CallLimitExceededError")
    /\ ncalls.tool = 12
    /\ state.tool_call_count = 12
    /\ state.route_taken = Some("tool_call_limit_exceeded")

\* C34: node_path and errors are append-only: in every step of a run, by any
\* stage or guard, the previous value of each sequence is a prefix of its new
\* value.
C34_IsPrefix(old, new) ==
    /\ Len(old) <= Len(new)
    /\ \A k \in 1..Len(old) : new[k] = old[k]

C34_AppendOnly ==
    [][/\ C34_IsPrefix(state.node_path, state'.node_path)
       /\ C34_IsPrefix(state.errors, state'.errors)]_vars

\* a run aborted by the call limit in scoring: three stages are listed before
\* it and the limit message is the only error
C34_Witness ==
    /\ pc = "raised"
    /\ exc = Some("CallLimitExceededError")
    /\ state.node_path = <<"intake", "pii_middleware", "moderation_middleware", "scoring">>
    /\ Len(state.errors) = 1

\* an Intake early exit has returned: the intake error is still the only
\* entry of errors after output
C34_EarlyExitWitness ==
    /\ pc = "returned"
    /\ state.node_path = P2
    /\ Len(state.errors) = 1
    /\ state.route_taken = Some("missing_customer_id")

\* C35: in an explain_score run the explainability text is appended after
\* scrubbing and is itself free of PII: for every feature input, 10-digit
\* txn_count and avg_txn_amount values included, the free_text_notes held
\* from scoring to the end of the run contains no match of any of the four
\* PII pattern classes.
C35_NotesPiiFree ==
    /\ state.intent = Some("explain_score")
    /\ "scoring" \in Range(visited)
    /\ state.free_text_notes # None
    => \A t \in {"ssn", "email", "phone", "account_num"} :
          \A k \in 1..Len(Val(state.free_text_notes)) :
              ~PatternMatches(t, Val(state.free_text_notes)[k])

\* an explain_score run with txn_count = 1234567890 has returned: the SSN of
\* the note is redacted, and the report appended after it shows the raw
\* value, which the account-number pattern matches
C35_Witness ==
    /\ pc = "returned"
    /\ state.intent = Some("explain_score")
    /\ Val(PayloadOf(state).customer_features.value).txn_count = Entry(1234567890)
    /\ "customer_id" \in Range(state.pii_fields_redacted)
    /\ "ssn" \in Range(state.pii_fields_redacted)
    /\ Val(state.free_text_notes)[1] = "SSN [REDACTED-SSN] on file"
    /\ \E k \in 1..Len(Val(state.free_text_notes)) :
          /\ Val(state.free_text_notes)[k] = "1234567890"
          /\ PatternMatches("account_num", Val(state.free_text_notes)[k])

\* ---- C36
C36_RunEnded == pc[1] \in {"returned", "raised"}

C36_GraphEnded == pc[2] \in {END, "raised"}

\* C36: the sequential runner and the compiled graph, given equal states, the
\* same moderation outcome and the same reviewer decision, visit the same
\* stages in the same order, and when both have ended they have ended the
\* same way (both returned or both raised the same exception) with the same
\* final state and the same audit record
C36_SameBehaviour ==
    /\ C34_IsPrefix(visited[1], visited[2]) \/ C34_IsPrefix(visited[2], visited[1])
    /\ (C36_RunEnded /\ C36_GraphEnded) =>
          /\ visited[1] = visited[2]
          /\ state[1] = state[2]
          /\ exc[1] = exc[2]
          /\ (pc[1] = "returned") = (pc[2] = END)
          /\ log_file[1] = log_file[2]

\* both have ended a run in which a reviewer edited an escalated response
C36_Witness ==
    /\ C36_RunEnded /\ C36_GraphEnded
    /\ visited[2] = <<"intake", "pii_middleware", "moderation_middleware", "scoring",
                      "router", "hitl", "output">>
    /\ state[2].hitl_reviewer_action = Some("edit")

\* both have ended a run that intake closed early
C36_EarlyExitWitness ==
    /\ C36_RunEnded /\ C36_GraphEnded
    /\ visited[2] = <<"intake", "output">>
    /\ pc[2] = END

\* ---- C37
\* the features compute_score was called with
C37_Features == Val(PayloadOf(state).customer_features.value)

\* the normalized txn_count and avg_txn_amount, as fractions over C37_Den
C37_TxnNorm ==
    MinMaxNum(Val(C37_Features.txn_count.value), TXN_COUNT_MIN, TXN_COUNT_MAX)
        * MinMaxDen(AVG_AMT_MIN, AVG_AMT_MAX)

C37_AmtNorm ==
    MinMaxNum(Val(C37_Features.avg_txn_amount.value), AVG_AMT_MIN, AVG_AMT_MAX)
        * MinMaxDen(TXN_COUNT_MIN, TXN_COUNT_MAX)

C37_Den == MinMaxDen(TXN_COUNT_MIN, TXN_COUNT_MAX) * MinMaxDen(AVG_AMT_MIN, AVG_AMT_MAX)

C37_Hrc == Val(C37_Features.high_risk_country.value)

C37_AllAtOne == C37_TxnNorm = C37_Den /\ C37_AmtNorm = C37_Den /\ C37_Hrc = 1

\* C37: the configured weights sum to 1.0 (100 hundredths); whenever
\* compute_score returns a score, the weight recorded for each feature in the
\* breakdown is the configured one, the score is the sum of the normalized
\* features weighted by the configured weights, and with every normalized
\* feature at 1 the score is exactly 100
C37_WeightsApplied ==
    /\ WEIGHTS.txn_count + WEIGHTS.avg_txn_amount + WEIGHTS.high_risk_country = 100
    /\ pc = "compute_returned" =>
          /\ \A i \in 1..Len(REQUIRED_FIELDS) :
                Val(state.score_breakdown)[REQUIRED_FIELDS[i]].weight
                    = WEIGHTS[REQUIRED_FIELDS[i]]
          /\ state.risk_score =
                Some(RoundScaled(100, WEIGHTS.txn_count * C37_TxnNorm
                                      + WEIGHTS.avg_txn_amount * C37_AmtNorm
                                      + WEIGHTS.high_risk_country * C37_Hrc * C37_Den,
                                 C37_Den))
          /\ C37_AllAtOne => state.risk_score = Some(10000)

\* compute_score has returned 100 for features that are all at their maximum
C37_Witness ==
    /\ pc = "compute_returned"
    /\ C37_AllAtOne
    /\ state.risk_score = Some(10000)

\* compute_score has returned for features of which only one is at its maximum
C37_PartWitness ==
    /\ pc = "compute_returned"
    /\ C37_TxnNorm = C37_Den /\ C37_AmtNorm # C37_Den /\ C37_AmtNorm # 0
    /\ C37_Hrc = 0

\* ---- C38
\* the feature the explanation names after "Primary driver: "
C38_Named ==
    LET text == Val(result).explainability_text
        k == CHOOSE n \in 1..Len(text) : text[n] = "Primary driver: "
    IN  text[k + 1]

C38_Contribution(i) ==
    Val(state.score_breakdown)[REQUIRED_FIELDS[i]].weighted_contribution

\* feature `i` of the fixed order has the greatest contribution and no
\* feature before it has as much
C38_FirstGreatest(i) ==
    /\ \A j \in 1..Len(REQUIRED_FIELDS) : C38_Contribution(j) <= C38_Contribution(i)
    /\ \A j \in 1..(i - 1) : C38_Contribution(j) < C38_Contribution(i)

\* two or more features share the greatest contribution
C38_Tie ==
    \E i, j \in 1..Len(REQUIRED_FIELDS) :
        /\ i # j
        /\ C38_Contribution(i) = C38_Contribution(j)
        /\ \A k \in 1..Len(REQUIRED_FIELDS) : C38_Contribution(k) <= C38_Contribution(i)

\* C38: the primary driver named in the explanation is the feature with the
\* greatest weighted contribution and, among several with the greatest
\* contribution, the first in the order txn_count, avg_txn_amount,
\* high_risk_country
C38_PrimaryDriver ==
    pc = "compute_returned" =>
        \E i \in 1..Len(REQUIRED_FIELDS) :
            /\ C38_Named = TitleOf(REQUIRED_FIELDS[i])
            /\ C38_FirstGreatest(i)

\* avg_txn_amount and high_risk_country tie above txn_count, and
\* avg_txn_amount is named
C38_Witness ==
    /\ pc = "compute_returned"
    /\ C38_Tie
    /\ C38_Contribution(1) < C38_Contribution(2)
    /\ C38_Contribution(2) = C38_Contribution(3)
    /\ C38_Named = "Avg Txn Amount"

\* high_risk_country alone has the greatest contribution and is named
C38_NoTieWitness ==
    /\ pc = "compute_returned"
    /\ ~C38_Tie
    /\ C38_Named = "High Risk Country"

\* ---- C39
\* the part of a state that records the routing decision
C39_Decision(st) ==
    <<st.terminal_status, st.route_taken, st.risk_score, st.risk_tier, st.missing_fields,
      st.moderation_passed, st.moderation_reason, st.tool_call_count, st.model_call_count>>

\* a step of hitl_node: its entry, or the reviewer's decision at its prompt
C39_HitlStep == pc \in {"hitl", "hitl_input"} /\ pc' # pc

C39_Frame ==
    C39_HitlStep =>
        /\ C39_Decision(state') = C39_Decision(state)
        /\ state'.hitl_reviewer_action # None => state'.terminal_status = Some("ESCALATE")

\* a run in which the gate recorded a reviewer action has ended with
\* terminal_status ESCALATE, in the state and in the audit record
C39_EndsEscalated ==
    (pc = "returned" /\ state.hitl_reviewer_action # None) =>
        /\ state.terminal_status = Some("ESCALATE")
        /\ Val(log_file).terminal_status = Some("ESCALATE")

\* C39: no step of hitl_node (automatic approval, or a reviewer's approve,
\* edit or reject) changes terminal_status, route_taken, risk_score,
\* risk_tier, missing_fields, the moderation result or either call counter;
\* a state that carries a reviewer action has terminal_status ESCALATE, and
\* so does the run's final state and audit record
C39_HitlKeepsDecision == [][C39_Frame]_vars /\ []C39_EndsEscalated

\* a reviewer approved an escalation at the prompt and the run has returned
C39_Witness ==
    /\ pc = "returned"
    /\ reviewer_input # None
    /\ state.hitl_reviewer_action = Some("approve")
    /\ state.terminal_status = Some("ESCALATE")
    /\ Val(log_file).terminal_status = Some("ESCALATE")

\* an escalation was approved automatically and the run has returned
C39_AutoWitness ==
    /\ pc = "returned"
    /\ reviewer_input = None
    /\ state.hitl_reviewer_action = Some("approve")
    /\ state.risk_score # None

\* a reviewer rejected an escalation and the run has returned
C39_RejectWitness ==
    /\ pc = "returned"
    /\ state.hitl_reviewer_action = Some("reject")
    /\ state.terminal_status = Some("ESCALATE")

\* ---- C40
C40_LimitRoutes == {Some("tool_call_limit_exceeded"), Some("model_call_limit_exceeded")}

C40_UnscoredWitness ==
    /\ pc = "returned"
    /\ "scoring" \notin Range(visited)
    /\ state.tool_call_count = 0

====
